---------------------------- MODULE Spec2Model ----------------------------
(***************************************************************************)
(* A model of pet_lib v5.0 (src/v5.0/pet_lib.py): the display adapter, the *)
(* stat panel, the record constructor, JSON persistence of records and the *)
(* dashboard / battle-log presenters, the HUD, the sound and API           *)
(* presenters, the load of the module (in each version), and the stat      *)
(* panel of v2.0.                                                          *)
(*                                                                         *)
(* Every library call is one action.  A call leaves what it did in the     *)
(* "last call" variables (op, raised, ret, out, disp, bars, layout,        *)
(* logview); the file system (fs) and the caller's objects (heap) persist  *)
(* from call to call.                                                      *)
(***************************************************************************)
EXTENDS Integers, Sequences, FiniteSets, TLC

VARIABLES
    MODE,      \* the display mode, "JUPYTER" or "TERMINAL" (module global)
    version,   \* which pet_lib.py the process imported: "v1.0" .. "v5.0"
    ipython,   \* whether IPython.display can be imported at this moment
    sound_library, \* the keys of the SOUND_LIBRARY dict, in its order
    handles,   \* how many files the library holds open
    assets,    \* the image files: mood -> "ok", "missing" or "unreadable"
    fs,        \* the file system: path -> [kind, data]
    saved,     \* history: path -> the last successful save_pet: [some, ok, d]
    heap,      \* the dict objects create_pet made, by address
    pets,      \* the caller's variables: [ref, pos, kw, pristine]
    op,        \* name of the last library call ("" before the first)
    raised,    \* exception that left the last call, "" when it returned
    posargs,   \* the positional arguments the last create_pet was given
    arg,       \* the record (create_pet: the keywords) the last call got
    enemy,     \* the enemy record the last call was given: [some, d]
    path,      \* the path the last call was given
    ret,       \* what the last call returned: [some, d]
    out,       \* console lines the last call printed
    disp,      \* what the last call handed to display(): [via, kind]
    bars,      \* the bars of the stat panel the last call rendered
    layout,    \* the card slots of the dashboard the last call rendered
    logs,      \* the log sequence the last call was given
    frames,    \* the frame list the last call was given
    logview,   \* the log entries the last call showed, top to bottom
    text,      \* the text argument the last call was given (a sound tag)
    slept,     \* the time.sleep calls of the last call, in milliseconds
    trace,     \* what the last call did, in order: print, display, clear, sleep
    after      \* the objects the last call was given, as they are after it

vars == <<MODE, version, ipython, sound_library, handles, assets, fs, saved,
          heap, pets, op, raised, posargs, arg, enemy, path, ret, out, disp,
          bars, layout, logs, frames, logview, text, slept, trace, after>>

(* what persists from call to call *)
world == <<MODE, version, ipython, sound_library, handles, assets, fs, saved,
           heap, pets>>

(* the same but for the open files *)
steady == <<MODE, version, ipython, sound_library, assets, fs, saved, heap,
            pets>>

-----------------------------------------------------------------------------
(* Python values.  Every value has the same shape so that any two can be   *)
(* compared: t is the Python type, n an int payload, s a str payload,      *)
(* items the elements of a list or tuple (ints).                           *)

PyInt(n)   == [t |-> "int",   n |-> n, s |-> "", items |-> <<>>]
PyStr(s)   == [t |-> "str",   n |-> 0, s |-> s,  items |-> <<>>]
PyNone     == [t |-> "None",  n |-> 0, s |-> "", items |-> <<>>]
PyList(xs) == [t |-> "list",  n |-> 0, s |-> "", items |-> xs]
PyTuple(xs) == [t |-> "tuple", n |-> 0, s |-> "", items |-> xs]
PySet      == [t |-> "set",   n |-> 0, s |-> "", items |-> <<>>]

(* a text key of a dict *)
K(s) == PyStr(s)

(* An Optional[int] argument. *)
Some(n)    == [some |-> TRUE,  n |-> n]
Nothing    == [some |-> FALSE, n |-> 0]

(* A console line: a kind, and the text and number interpolated into it. *)
Line(k, s, n) == [k |-> k, s |-> s, n |-> n]

(* A dict is the sequence of its items in insertion order, keys unique. *)
Item(k, v) == [k |-> k, v |-> v]
EmptyDict  == <<>>

(* An Optional[dict]: a dict, or None. *)
SomeDict(d) == [some |-> TRUE, d |-> d]
NoDict      == [some |-> FALSE, d |-> EmptyDict]

Keys(d) == {d[i].k : i \in 1..Len(d)}

HasKey(d, k) == \E i \in 1..Len(d) : d[i].k = k

(* d[k], for a key of d *)
Get(d, k) == d[CHOOSE i \in 1..Len(d) : d[i].k = k].v

(* dict.get(k, default) *)
GetOr(d, k, default) == IF HasKey(d, k) THEN Get(d, k) ELSE default

(* d[k] = v: an existing key keeps its place, a new key goes last *)
DictSet(d, k, v) ==
    IF HasKey(d, k)
    THEN [i \in 1..Len(d) |-> IF d[i].k = k THEN Item(k, v) ELSE d[i]]
    ELSE Append(d, Item(k, v))

(* d.update(e) *)
RECURSIVE DictUpdate(_, _)
DictUpdate(d, e) ==
    IF e = <<>> THEN d
    ELSE DictUpdate(DictSet(d, Head(e).k, Head(e).v), Tail(e))

(* d1 == d2 for dicts: the same keys with equal values, in any order *)
DictEq(d1, d2) ==
    /\ Keys(d1) = Keys(d2)
    /\ \A k \in Keys(d1) : Get(d1, k) = Get(d2, k)

-----------------------------------------------------------------------------
(* Display adapter *)

Modes == {"JUPYTER", "TERMINAL"}

(* the moods that may have an image file, and the paths of save files *)
Moods == {"normal", "happy"}
Paths == {"t.json", "nodir/t.json", "locked.json"}

(* What a call leaves of the objects it was given. *)

(* the dict after d.setdefault(k, default) *)
after_setdefault(d, k, default) ==
    IF HasKey(d, k) THEN d ELSE DictSet(d, k, default)

(* the dict after d.get(k, default): get inserts nothing *)
after_get(d, k, default) == d

(* the dict after a run of d.get(k, default), reads a sequence of <<k, default>> *)
RECURSIVE after_gets(_, _)
after_gets(d, reads) ==
    IF reads = <<>> THEN d
    ELSE after_gets(after_get(d, Head(reads)[1], Head(reads)[2]), Tail(reads))

(* an Optional[dict] after the same, read only when it is truthy *)
after_gets_opt(e, reads) ==
    IF e.some /\ e.d # EmptyDict THEN SomeDict(after_gets(e.d, reads)) ELSE e

(* the list after s[-k:], which copies the slice *)
after_slice(s, k) == s

(* the list after for x in s *)
for_each(s) == s

(* the dict after json.dump(d, f), whether it returned or raised *)
after_dump(d) == d

(* the keys of SOUND_LIBRARY, in the order of the dict *)
SoundTags == <<"attack", "hit", "level_up", "game_over", "bgm", "heal">>

(* An event of a call: a printed line, an object handed to display(), a    *)
(* clear_output(), a time.sleep() that returned.                           *)
Ev(e, k, s, n) == [e |-> e, k |-> k, s |-> s, n |-> n]

Printed(line) == Ev("print", line.k, line.s, line.n)
Shown(d)      == Ev("display", d.kind, d.via, 0)
Cleared       == Ev("clear", "", "", 0)
Slept(ms)     == Ev("sleep", "", "", ms)

Prints(lines) == [i \in 1..Len(lines) |-> Printed(lines[i])]
Shows(ds)     == [i \in 1..Len(ds) |-> Shown(ds[i])]

(* the events of a call that prints and then displays *)
TraceOf(lines, ds) == Prints(lines) \o Shows(ds)

(* the record, the enemy record, the log list and the frame list a call *)
(* was given                                                            *)
After(a, e, l, f) == [arg |-> a, enemy |-> e, logs |-> l, frames |-> f]

(* No call has been made yet. *)
NoCall ==
    /\ op = ""
    /\ raised = ""
    /\ posargs = <<>>
    /\ arg = EmptyDict
    /\ enemy = NoDict
    /\ path = ""
    /\ ret = NoDict
    /\ out = <<>>
    /\ disp = <<>>
    /\ bars = <<>>
    /\ layout = <<>>
    /\ logs = <<>>
    /\ logview = <<>>
    /\ text = ""
    /\ slept = <<>>
    /\ trace = <<>>
    /\ frames = <<>>
    /\ after = After(EmptyDict, NoDict, <<>>, <<>>)
    /\ sound_library = SoundTags
    /\ handles = 0

(* the process imported v5.0 and the probe for IPython.display gave MODE *)
Loaded ==
    /\ version = "v5.0"
    /\ ipython = (MODE = "JUPYTER")

(* f = open(...), the body, f.close(): a body that raises skips the close *)
open_then_close(h, opened, body_raised) ==
    IF opened /\ body_raised THEN h + 1 ELSE h

(* with open(...) as f: the file, once opened, is closed when the block is *)
(* left, whether its body returned or raised; when open() itself raised    *)
(* there is no file to close                                               *)
with_open(h, opened, body_raised) ==
    IF opened THEN (h + 1) - 1 ELSE h

(* _render_html: display(HTML(...)) in JUPYTER mode, nothing otherwise.    *)
(* The value is what the display surface receives.                        *)
render_html(mode) ==
    IF mode = "JUPYTER" THEN <<[via |-> "_render_html", kind |-> "html"]>>
    ELSE <<>>

-----------------------------------------------------------------------------
(* Stat panel *)

RED    == "#ff4444"
ORANGE == "#ffbb33"
GREEN  == "#00C851"

CriticalBelow == 20
WarningBelow  == 50
BarMax        == 100

(* the thresholds taken inclusively *)
get_bar_color_inclusive(value) ==
    IF value <= CriticalBelow THEN RED
    ELSE IF value <= WarningBelow THEN ORANGE
    ELSE GREEN

get_bar_color(value) ==
    IF value < CriticalBelow THEN RED
    ELSE IF value < WarningBelow THEN ORANGE
    ELSE GREEN

(* min(a, b) *)
Min(a, b) == IF a < b THEN a ELSE b
Max(a, b) == IF a > b THEN a ELSE b

(* show_stats._create_bar_html: the label shows the raw value, the fill   *)
(* is min(value, 100) percent wide, the colour comes from _get_bar_color. *)
create_bar_html(label, value) ==
    [label |-> label, value |-> value,
     color |-> get_bar_color(value), width |-> Min(value, BarMax)]

StatMargin == 3
StatValues == (0 - StatMargin)..(BarMax + StatMargin)
StatSamples == {0, CriticalBelow - 1, CriticalBelow, WarningBelow - 1,
                WarningBelow, BarMax}

show_stats(hp, hunger, happiness) ==
    /\ op' = "show_stats"
    /\ text' = "" /\ slept' = <<>>
    /\ raised' = ""
    /\ IF MODE = "TERMINAL"
       THEN /\ out' = <<Line("name", "", 0), Line("HP", "", hp),
                        Line("Hunger", "", hunger)>>
                      \o (IF happiness.some
                          THEN <<Line("Happy", "", happiness.n)>> ELSE <<>>)
            /\ bars' = <<>>
            /\ disp' = <<>>
       ELSE /\ out' = <<>>
            /\ bars' = <<create_bar_html("HP", hp),
                         create_bar_html("Hunger", hunger)>>
                       \o (IF happiness.some
                           THEN <<create_bar_html("Happiness", happiness.n)>>
                           ELSE <<>>)
            /\ disp' = render_html(MODE)
    /\ posargs' = <<>> /\ arg' = EmptyDict /\ enemy' = NoDict /\ path' = ""
    /\ ret' = NoDict
    /\ layout' = <<>> /\ logs' = <<>> /\ logview' = <<>>
    /\ trace' = TraceOf(out', disp')
    /\ frames' = <<>>
    /\ after' = After(arg', enemy', logs', frames')
    /\ UNCHANGED world


-----------------------------------------------------------------------------
(* Dashboard and battle log *)

(* how a value reads when it is interpolated into text *)
Show(v) ==
    IF v.t = "str" THEN v.s
    ELSE IF v.t = "int" THEN ToString(v.n)
    ELSE "None"

(* s[-k:], for k > 0: the last k elements, all of s when it has fewer *)
LastN(s, k) == SubSeq(s, Max(1, Len(s) - k + 1), Len(s))

(* reversed(s) *)
Reversed(s) == [i \in 1..Len(s) |-> s[Len(s) - i + 1]]

DashLogs           == 5
DashLogsTerminal   == 3
BattleLogs         == 10
BattleLogsTerminal == 5
CardWidth          == 45

(* the log entries in the order written *)
dashboard_logs_in_order(mode, log) ==
    IF mode = "TERMINAL" THEN LastN(log, DashLogsTerminal)
    ELSE LastN(log, DashLogs)

(* the log entries show_dashboard shows, top to bottom: logs[-3:] as      *)
(* printed lines, reversed(logs[-5:]) in the markup                       *)
dashboard_logs(mode, log) ==
    IF mode = "TERMINAL" THEN LastN(log, DashLogsTerminal)
    ELSE Reversed(LastN(log, DashLogs))

(* the dashboard's window used for the log view as well *)
battle_logs_short(mode, messages) ==
    IF mode = "TERMINAL" THEN LastN(messages, BattleLogsTerminal)
    ELSE Reversed(LastN(messages, DashLogs))

(* the entries show_battle_log shows, top to bottom: messages[-5:] as     *)
(* printed lines, reversed(messages[-10:]) in the markup                  *)
battle_logs(mode, messages) ==
    IF mode = "TERMINAL" THEN LastN(messages, BattleLogsTerminal)
    ELSE Reversed(LastN(messages, BattleLogs))

(* _get_img_path: whether "<mood>.png" is found in the assets directory   *)
(* or its fallback                                                        *)
get_img_path(mood) == mood \in Moods /\ assets[mood] # "missing"

(* int(hp / max_hp * 100), for max_hp > 0: the quotient is a double, cut  *)
(* towards zero.  FloatShort lists the pairs (for max_hp 50, 100 and 200  *)
(* and hp up to 120, which covers the records of this model) whose        *)
(* product is an integer in exact arithmetic and falls just short of it   *)
(* in doubles.                                                            *)
FloatShort ==
    { <<29, 50>>, <<57, 50>>, <<58, 50>>, <<113, 50>>, <<114, 50>>,
      <<115, 50>>, <<116, 50>>,
      <<29, 100>>, <<57, 100>>, <<58, 100>>, <<113, 100>>, <<114, 100>>,
      <<115, 100>>, <<116, 100>>,
      <<58, 200>>, <<114, 200>>, <<116, 200>> }

Abs(a) == IF a >= 0 THEN a ELSE 0 - a

(* the quotient cut towards zero, for b # 0 *)
TruncDiv(a, b) ==
    IF (a >= 0) = (b > 0) THEN Abs(a) \div Abs(b)
    ELSE 0 - (Abs(a) \div Abs(b))

(* rounding is the same for either sign: a product that falls short does  *)
(* so in magnitude                                                        *)
py_percent(hp, max_hp) ==
    IF <<Abs(hp), Abs(max_hp)>> \in FloatShort
    THEN IF (hp >= 0) = (max_hp > 0)
         THEN TruncDiv(100 * hp, max_hp) - 1
         ELSE TruncDiv(100 * hp, max_hp) + 1
    ELSE TruncDiv(100 * hp, max_hp)

NoCard == [kind |-> "none", name |-> "", hp |-> "", max_hp |-> "",
           mood |-> "", img |-> "", percent |-> 0, enemy |-> FALSE,
           width |-> 0]

(* the empty slot: <div style="width: 45%;"></div> *)
EmptySlot == [NoCard EXCEPT !.kind = "empty", !.width = CardWidth]

(* show_dashboard._create_card on a dict or None (the records of this     *)
(* model hold ints in hp and max_hp).  exc is the exception that leaves   *)
(* it: the image file, once found, is opened with no handler around it.   *)
create_card(entity, is_enemy) ==
    IF ~entity.some \/ entity.d = EmptyDict
    THEN [exc |-> "", card |-> NoCard]
    ELSE LET name   == GetOr(entity.d, K("name"), PyStr("Unknown"))
             hp     == GetOr(entity.d, K("hp"), PyInt(100))
             max_hp == GetOr(entity.d, K("max_hp"), PyInt(100))
             mood   == GetOr(entity.d, K("mood"), PyStr("normal"))
             found  == get_img_path(Show(mood))
         IN  IF found /\ assets[Show(mood)] = "unreadable"
             THEN [exc |-> "PermissionError", card |-> NoCard]
             ELSE [exc |-> "",
                   card |-> [kind |-> "card", name |-> Show(name),
                             hp |-> Show(hp), max_hp |-> Show(max_hp),
                             mood |-> Show(mood),
                             img |-> IF found THEN "image" ELSE "moodbox",
                             percent |-> IF max_hp.n > 0
                                         THEN py_percent(hp.n, max_hp.n)
                                         ELSE 0,
                             enemy |-> is_enemy, width |-> CardWidth]]

(* _create_card reaches open(img_path, "rb") and it returns a file *)
card_opens(entity) ==
    /\ entity.some /\ entity.d # EmptyDict
    /\ LET mood == Show(GetOr(entity.d, K("mood"), PyStr("normal")))
       IN  get_img_path(mood) /\ assets[mood] = "ok"

IsSlot(c) == c.kind # "none"

LogLines(entries) == [i \in 1..Len(entries) |-> Line("log", "", entries[i])]

show_dashboard(player, foe, log) ==
    /\ op' = "show_dashboard"
    /\ text' = "" /\ slept' = <<>>
    /\ arg' = player
    /\ enemy' = foe
    /\ logs' = log
    /\ IF MODE = "TERMINAL"
       THEN /\ out' = <<Line("DASHBOARD", "", 0),
                        Line("Player", Show(GetOr(player, K("name"), PyNone)), 0),
                        Line("HP", Show(GetOr(player, K("hp"), PyNone)), 0)>>
                      \o (IF foe.some /\ foe.d # EmptyDict
                          THEN <<Line("Enemy", Show(GetOr(foe.d, K("name"), PyNone)), 0),
                                 Line("HP", Show(GetOr(foe.d, K("hp"), PyNone)), 0)>>
                          ELSE <<>>)
                      \o <<Line("LOGS", "", 0)>>
                      \o LogLines(dashboard_logs(MODE, log))
            /\ logview' = dashboard_logs(MODE, log)
            /\ raised' = "" /\ layout' = <<>> /\ disp' = <<>>
       ELSE LET pc == create_card(SomeDict(player), FALSE)
                ec == IF foe.some /\ foe.d # EmptyDict
                      THEN create_card(foe, TRUE)
                      ELSE [exc |-> "", card |-> EmptySlot]
                exc == IF pc.exc # "" THEN pc.exc ELSE ec.exc
            IN  /\ out' = <<>>
                /\ raised' = exc
                /\ IF exc # ""
                   THEN layout' = <<>> /\ logview' = <<>> /\ disp' = <<>>
                   ELSE /\ layout' = SelectSeq(<<pc.card, ec.card>>, IsSlot)
                        /\ logview' = dashboard_logs(MODE, log)
                        /\ disp' = render_html(MODE)
    /\ posargs' = <<>> /\ path' = "" /\ ret' = NoDict /\ bars' = <<>>
    /\ trace' = TraceOf(out', disp')
    /\ frames' = <<>>
    /\ after' =
          LET reads == IF MODE = "TERMINAL"
                       THEN <<<<K("name"), PyNone>>, <<K("hp"), PyNone>>>>
                       ELSE <<<<K("name"), PyStr("Unknown")>>,
                              <<K("hp"), PyInt(100)>>,
                              <<K("max_hp"), PyInt(100)>>,
                              <<K("mood"), PyStr("normal")>>>>
          IN  After(after_gets_opt(SomeDict(player), reads).d,
                    IF MODE = "JUPYTER"
                       /\ create_card(SomeDict(player), FALSE).exc # ""
                    THEN foe
                    ELSE after_gets_opt(foe, reads),
                    IF raised' # "" THEN log
                    ELSE after_slice(log, IF MODE = "TERMINAL"
                                          THEN DashLogsTerminal ELSE DashLogs),
                    frames')
    /\ handles' =
          IF MODE = "TERMINAL" THEN handles
          ELSE LET h1 == with_open(handles, card_opens(SomeDict(player)), FALSE)
               IN  IF create_card(SomeDict(player), FALSE).exc # "" THEN h1
                   ELSE with_open(h1, card_opens(foe), FALSE)
    /\ UNCHANGED steady

show_battle_log(messages) ==
    /\ op' = "show_battle_log"
    /\ text' = "" /\ slept' = <<>>
    /\ logs' = messages
    /\ logview' = battle_logs(MODE, messages)
    /\ IF MODE = "TERMINAL"
       THEN /\ out' = <<Line("BATTLE LOG", "", 0)>>
                      \o LogLines(battle_logs(MODE, messages))
            /\ disp' = <<>>
       ELSE /\ out' = <<>>
            /\ disp' = render_html(MODE)
    /\ raised' = "" /\ posargs' = <<>> /\ arg' = EmptyDict /\ enemy' = NoDict
    /\ path' = "" /\ ret' = NoDict /\ bars' = <<>> /\ layout' = <<>>
    /\ trace' = TraceOf(out', disp')
    /\ frames' = <<>>
    /\ after' = After(arg', enemy',
                       after_slice(messages, IF MODE = "TERMINAL"
                                             THEN BattleLogsTerminal
                                             ELSE BattleLogs),
                       frames')
    /\ UNCHANGED world

(* The stat panel on its own: any mode, then show_stats calls.  One of the *)
(* three values ranges over all of StatValues, or all three over the      *)
(* thresholds.                                                             *)
StatArgs ==
    {<<a, WarningBelow, Nothing>> : a \in StatValues}
    \cup {<<WarningBelow, b, Nothing>> : b \in StatValues}
    \cup {<<WarningBelow, WarningBelow, Some(n)>> : n \in StatValues}
    \cup {<<a, b, c>> : a \in StatSamples, b \in StatSamples,
                        c \in {Nothing} \cup {Some(n) : n \in StatSamples}}


(* a path open() can never open: its directory is missing, or access to   *)
(* it is denied                                                           *)
PathKind(p) ==
    IF p = "nodir/t.json" THEN "nodir"
    ELSE IF p = "locked.json" THEN "denied"
    ELSE "absent"

(* saved[p].some: a save_pet on p has reported success; d: the record of  *)
(* the last one that did; over: the length of what p held when that save  *)
(* opened it; ok: no save_pet on p has failed since                        *)
NoSave == [some |-> FALSE, ok |-> FALSE, d |-> EmptyDict, over |-> 0]

(* a world with every image in place and no save file *)
PlainWorld ==
    /\ assets = [m \in Moods |-> "ok"]
    /\ fs = [p \in Paths |-> [kind |-> PathKind(p), data |-> <<>>]]
    /\ saved = [p \in Paths |-> NoSave]
    /\ heap = <<>>
    /\ pets = <<>>

InitStats ==
    /\ MODE \in Modes
    /\ Loaded
    /\ PlainWorld
    /\ NoCall

NextStats == \E a \in StatArgs : show_stats(a[1], a[2], a[3])

SpecStats == InitStats /\ [][NextStats]_vars

(* The classification the specification states. *)
StatClass(v) ==
    IF v < 20 THEN "critical" ELSE IF v < 50 THEN "warning" ELSE "nominal"

ClassColor(c) ==
    IF c = "critical" THEN RED ELSE IF c = "warning" THEN ORANGE ELSE GREEN

(* C1: every bar show_stats renders, HP, hunger and happiness alike, is   *)
(* coloured by the three-level rule: below 20 critical (red), from 20 to  *)
(* 49 warning (orange), 50 and above nominal (green); each value gets     *)
(* exactly one of the three colours.                                      *)
C1_BarColorRule ==
    (op = "show_stats" /\ MODE = "JUPYTER") =>
        /\ Len(bars) \in {2, 3}
        /\ bars[1].label = "HP" /\ bars[2].label = "Hunger"
        /\ Len(bars) = 3 => bars[3].label = "Happiness"
        /\ \A i \in 1..Len(bars) :
              /\ bars[i].color = ClassColor(StatClass(bars[i].value))
              /\ (bars[i].color = RED) <=> (bars[i].value < 20)
              /\ (bars[i].color = ORANGE) <=>
                     (20 <= bars[i].value /\ bars[i].value < 50)
              /\ (bars[i].color = GREEN) <=> (bars[i].value >= 50)

(* A panel with three bars, one in each class, the warning one at the 20  *)
(* boundary. *)
C1_Witness ==
    /\ op = "show_stats" /\ MODE = "JUPYTER"
    /\ Len(bars) = 3
    /\ bars[1].value = 20 /\ bars[1].color = ORANGE
    /\ bars[2].value = 19 /\ bars[2].color = RED
    /\ bars[3].value = 50 /\ bars[3].color = GREEN

-----------------------------------------------------------------------------
(* JSON documents.  A document is the sequence of the tokens of its text   *)
(* (white space, which json.load skips, is left out).                      *)

Tok(k, n, s) == [k |-> k, n |-> n, s |-> s]
Punct(k)     == Tok(k, 0, "")

(* json.dump turns a key that is an int into the string of its digits *)
KeyStr(k) == IF k.t = "int" THEN ToString(k.n) ELSE k.s

(* the values the encoder can write; anything else raises TypeError *)
Serializable(v) == v.t \in {"int", "str", "None", "list", "tuple"}

RECURSIVE EncodeInts(_)
EncodeInts(xs) ==
    IF xs = <<>> THEN <<>>
    ELSE <<Tok("num", Head(xs), "")>>
         \o (IF Tail(xs) = <<>> THEN <<>> ELSE <<Punct(",")>>)
         \o EncodeInts(Tail(xs))

(* every scalar written as a string *)
EncodeValueAsText(v) ==
    IF v.t = "int" THEN <<Tok("str", 0, ToString(v.n))>>
    ELSE IF v.t = "str" THEN <<Tok("str", 0, v.s)>>
    ELSE IF v.t = "None" THEN <<Tok("str", 0, "None")>>
    ELSE <<Punct("[")>> \o EncodeInts(v.items) \o <<Punct("]")>>

(* the chunks of one value: a tuple is written as an array, like a list *)
EncodeValue(v) ==
    IF v.t = "int" THEN <<Tok("num", v.n, "")>>
    ELSE IF v.t = "str" THEN <<Tok("str", 0, v.s)>>
    ELSE IF v.t = "None" THEN <<Punct("null")>>
    ELSE <<Punct("[")>> \o EncodeInts(v.items) \o <<Punct("]")>>

(* the chunks of the items of a dict from item i on, up to the first      *)
(* value that cannot be serialized: its key and colon are already out     *)
(* when the encoder raises                                                *)
RECURSIVE EncodeItems(_, _)
EncodeItems(d, i) ==
    IF i > Len(d) THEN [ok |-> TRUE, toks |-> <<Punct("}")>>]
    ELSE LET head == (IF i > 1 THEN <<Punct(",")>> ELSE <<>>)
                     \o <<Tok("str", 0, KeyStr(d[i].k)), Punct(":")>>
         IN  IF ~Serializable(d[i].v)
             THEN [ok |-> FALSE, toks |-> head]
             ELSE LET rest == EncodeItems(d, i + 1)
                  IN  [ok |-> rest.ok,
                       toks |-> head \o EncodeValue(d[i].v) \o rest.toks]

(* json.dump(pet_data, f): the chunks written to f, and whether the       *)
(* encoder reached the end (ok) or raised TypeError on the way            *)
json_dump(d) ==
    LET items == EncodeItems(d, 1)
    IN  [ok |-> items.ok, toks |-> <<Punct("{")>> \o items.toks]

(* the decoder *)
At(toks, i) == IF i <= Len(toks) THEN toks[i] ELSE Punct("eof")

ParseFail == [ok |-> FALSE, v |-> PyNone, next |-> 0]

(* the ints of an array from token i on (the token after "[" or ","),     *)
(* to the closing bracket                                                *)
RECURSIVE ParseInts(_, _, _)
ParseInts(toks, i, acc) ==
    IF At(toks, i).k # "num" THEN ParseFail
    ELSE LET acc2 == Append(acc, At(toks, i).n)
         IN  IF At(toks, i + 1).k = "]"
             THEN [ok |-> TRUE, v |-> PyList(acc2), next |-> i + 2]
             ELSE IF At(toks, i + 1).k = ","
             THEN ParseInts(toks, i + 2, acc2)
             ELSE ParseFail

(* the value that starts at token i, and the token after it *)
ParseValue(toks, i) ==
    LET t == At(toks, i)
    IN  IF t.k = "num" THEN [ok |-> TRUE, v |-> PyInt(t.n), next |-> i + 1]
        ELSE IF t.k = "str"
        THEN [ok |-> TRUE, v |-> PyStr(t.s), next |-> i + 1]
        ELSE IF t.k = "null" THEN [ok |-> TRUE, v |-> PyNone, next |-> i + 1]
        ELSE IF t.k = "["
        THEN IF At(toks, i + 1).k = "]"
             THEN [ok |-> TRUE, v |-> PyList(<<>>), next |-> i + 2]
             ELSE ParseInts(toks, i + 1, <<>>)
        ELSE ParseFail

(* the items of an object from token i on (the token after "{" or ","):   *)
(* a key, a colon, a value, then a comma or the closing brace, which must *)
(* end the document; a key met twice keeps its last value                 *)
RECURSIVE ParseItems(_, _, _)
ParseItems(toks, i, acc) ==
    IF At(toks, i).k # "str" \/ At(toks, i + 1).k # ":"
    THEN [ok |-> FALSE, d |-> EmptyDict]
    ELSE LET val == ParseValue(toks, i + 2)
         IN  IF ~val.ok THEN [ok |-> FALSE, d |-> EmptyDict]
             ELSE LET acc2 == DictSet(acc, PyStr(At(toks, i).s), val.v)
                  IN  IF At(toks, val.next).k = "}"
                      THEN [ok |-> val.next = Len(toks), d |-> acc2]
                      ELSE IF At(toks, val.next).k = ","
                      THEN ParseItems(toks, val.next + 1, acc2)
                      ELSE [ok |-> FALSE, d |-> EmptyDict]

(* json.load(f) on a document: the dict it holds, or not ok when the      *)
(* decoder raises JSONDecodeError.  (The documents of this model are      *)
(* objects or malformed; none holds a bare scalar or array.)              *)
json_load(toks) ==
    IF At(toks, 1).k # "{" THEN [ok |-> FALSE, d |-> EmptyDict]
    ELSE IF At(toks, 2).k = "}"
    THEN [ok |-> Len(toks) = 2, d |-> EmptyDict]
    ELSE ParseItems(toks, 2, EmptyDict)

-----------------------------------------------------------------------------
(* Records: create_pet *)

DefaultHp     == 100
DefaultHunger == 50

(* the extra fields forgotten *)
create_pet_no_extras(name, hp, hunger, mood, kwargs) ==
    <<Item(K("name"), name), Item(K("hp"), hp),
      Item(K("hunger"), hunger), Item(K("mood"), mood)>>

(* the body of create_pet: the four named fields, then kwargs over them *)
create_pet(name, hp, hunger, mood, kwargs) ==
    DictUpdate(<<Item(K("name"), name), Item(K("hp"), hp),
                 Item(K("hunger"), hunger), Item(K("mood"), mood)>>,
               kwargs)

(* A call of create_pet with positionals pos and keywords kw, against     *)
(* the signature (name, hp=100, hunger=50, mood="normal", and kwargs):    *)
(* a parameter takes its positional argument, else the keyword of its     *)
(* name, else its default; the keywords that name no parameter make up    *)
(* kwargs.  TypeError, before the body runs, for more positionals than    *)
(* parameters, a parameter given both ways, or no name at all.            *)
ParamNames == <<"name", "hp", "hunger", "mood">>

ParamDefault(i) ==
    IF i = 2 THEN PyInt(DefaultHp)
    ELSE IF i = 3 THEN PyInt(DefaultHunger)
    ELSE PyStr("normal")

BindError(pos, kw) ==
    \/ Len(pos) > Len(ParamNames)
    \/ \E i \in 1..Len(pos) : i <= Len(ParamNames) /\ HasKey(kw, K(ParamNames[i]))
    \/ Len(pos) = 0 /\ ~HasKey(kw, K("name"))

BindParam(pos, kw, i) ==
    IF i <= Len(pos) THEN pos[i]
    ELSE GetOr(kw, K(ParamNames[i]), ParamDefault(i))

IsParamItem(it) == \E i \in 1..Len(ParamNames) : it.k = K(ParamNames[i])
IsExtraItem(it) == ~IsParamItem(it)

BindKwargs(kw) == SelectSeq(kw, IsExtraItem)

(* one dict object kept and handed out by every call *)
new_dict_shared(h) == 1

(* the dict display of create_pet makes a new object on every call: its   *)
(* address is one no object has                                           *)
new_dict(h) == Len(h) + 1

MaxPets == 2

call_create_pet(pos, kw) ==
    /\ Len(pets) < MaxPets
    /\ op' = "create_pet"
    /\ text' = "" /\ slept' = <<>>
    /\ posargs' = pos
    /\ arg' = kw
    /\ IF BindError(pos, kw)
       THEN /\ raised' = "TypeError"
            /\ ret' = NoDict
            /\ UNCHANGED <<heap, pets>>
       ELSE LET d == create_pet(BindParam(pos, kw, 1), BindParam(pos, kw, 2),
                                BindParam(pos, kw, 3), BindParam(pos, kw, 4),
                                BindKwargs(kw))
                a == new_dict(heap)
            IN  /\ raised' = ""
                /\ ret' = SomeDict(d)
                /\ heap' = IF a <= Len(heap) THEN [heap EXCEPT ![a] = d]
                           ELSE Append(heap, d)
                /\ pets' = Append(pets, [ref |-> a, pos |-> pos, kw |-> kw,
                                         pristine |-> TRUE])
    /\ enemy' = NoDict /\ path' = ""
    /\ out' = <<>> /\ disp' = <<>> /\ bars' = <<>> /\ layout' = <<>>
    /\ logs' = <<>> /\ logview' = <<>>
    /\ trace' = TraceOf(out', disp')
    /\ frames' = <<>>
    /\ after' = After(arg', enemy', logs', frames')
    /\ UNCHANGED <<MODE, version, ipython, sound_library, handles, assets, fs,
                 saved>>

(* The caller changes a field of the record in its i-th variable:         *)
(* pet[k] = v.                                                            *)
setitem(i, k, v) ==
    /\ i \in 1..Len(pets)
    /\ GetOr(heap[pets[i].ref], k, PyNone) # v
    /\ op' = "setitem"
    /\ text' = "" /\ slept' = <<>>
    /\ heap' = [heap EXCEPT ![pets[i].ref] = DictSet(@, k, v)]
    /\ pets' = [pets EXCEPT ![i].pristine = FALSE]
    /\ raised' = "" /\ posargs' = <<>> /\ arg' = EmptyDict
    /\ ret' = NoDict /\ enemy' = NoDict /\ path' = ""
    /\ out' = <<>> /\ disp' = <<>> /\ bars' = <<>> /\ layout' = <<>>
    /\ logs' = <<>> /\ logview' = <<>>
    /\ trace' = TraceOf(out', disp')
    /\ frames' = <<>>
    /\ after' = After(arg', enemy', logs', frames')
    /\ UNCHANGED <<MODE, version, ipython, sound_library, handles, assets, fs,
                 saved>>

PosChoices ==
    { <<>>, <<PyStr("Fluffy")>>, <<PyStr("Fluffy"), PyInt(80)>>,
      <<PyStr("Fluffy"), PyInt(80), PyInt(30), PyStr("happy"), PyInt(1)>> }

KwChoices ==
    { <<>>,
      <<Item(K("hp"), PyInt(5))>>,
      <<Item(K("happiness"), PyInt(70))>>,
      <<Item(K("name"), PyStr("Byte")), Item(K("max_hp"), PyInt(120))>> }

InitCreate ==
    /\ MODE \in Modes
    /\ Loaded
    /\ PlainWorld
    /\ NoCall

NextCreate ==
    \/ \E pos \in PosChoices, kw \in KwChoices : call_create_pet(pos, kw)
    \/ \E i \in 1..MaxPets : setitem(i, K("hp"), PyInt(1))

SpecCreate == InitCreate /\ [][NextCreate]_vars

-----------------------------------------------------------------------------
(* Persistence: save_pet and load_pet *)

(* the exception classes met here, and their base classes *)
Bases(exc) ==
    IF exc = "FileNotFoundError" THEN {"FileNotFoundError", "OSError", "Exception"}
    ELSE IF exc = "PermissionError" THEN {"PermissionError", "OSError", "Exception"}
    ELSE IF exc = "JSONDecodeError" THEN {"JSONDecodeError", "ValueError", "Exception"}
    ELSE IF exc = "TypeError" THEN {"TypeError", "Exception"}
    ELSE {}

(* the exception open(filename, mode) raises on a file, "" if it opens *)
open_error(file, mode) ==
    IF file.kind = "nodir" THEN "FileNotFoundError"
    ELSE IF file.kind = "denied" THEN "PermissionError"
    ELSE IF file.kind = "absent" /\ mode = "r" THEN "FileNotFoundError"
    ELSE ""

(* opened for appending: what the file held stays *)
open_append(file) == [kind |-> "file", data |-> file.data]

(* open(filename, 'w') on a file that opens: it is created or truncated *)
open_w(file) == [kind |-> "file", data |-> <<>>]

(* only I/O errors caught *)
save_pet_catches_oserror(exc) == "OSError" \in Bases(exc)

(* save_pet's handler: except Exception *)
save_pet_catches(exc) == "Exception" \in Bases(exc)

save_pet(pet_data, filename) ==
    LET openexc == open_error(fs[filename], "w")
        dump    == json_dump(pet_data)
        exc     == IF openexc # "" THEN openexc
                   ELSE IF ~dump.ok THEN "TypeError" ELSE ""
        opened  == open_w(fs[filename])
    IN  /\ op' = "save_pet"
        /\ text' = "" /\ slept' = <<>>
        /\ arg' = pet_data
        /\ path' = filename
        /\ fs' = IF openexc # "" THEN fs
                 ELSE [fs EXCEPT ![filename] =
                          [opened EXCEPT !.data = opened.data \o dump.toks]]
        /\ out' = IF exc = "" THEN <<Line("save_ok", filename, 0)>>
                  ELSE IF save_pet_catches(exc)
                  THEN <<Line("save_failed", exc, 0)>>
                  ELSE <<>>
        /\ raised' = IF exc # "" /\ ~save_pet_catches(exc) THEN exc ELSE ""
        /\ saved' = [saved EXCEPT ![filename] =
                        IF exc = ""
                        THEN [some |-> TRUE, ok |-> TRUE, d |-> pet_data,
                              over |-> Len(fs[filename].data)]
                        ELSE [@ EXCEPT !.ok = FALSE]]
        /\ ret' = NoDict /\ enemy' = NoDict /\ posargs' = <<>>
        /\ disp' = <<>> /\ bars' = <<>> /\ layout' = <<>>
        /\ logs' = <<>> /\ logview' = <<>>
        /\ trace' = TraceOf(out', disp')
        /\ frames' = <<>>
        /\ after' = After(IF openexc = "" THEN after_dump(pet_data)
                          ELSE pet_data,
                          enemy', logs', frames')
        /\ handles' = with_open(handles, openexc = "", ~dump.ok)
        /\ UNCHANGED <<MODE, version, ipython, sound_library, assets, heap,
                       pets>>

(* a missing file reported by the general handler *)
load_pet_handler_general(exc) ==
    IF "Exception" \in Bases(exc) THEN "failed" ELSE "propagate"

(* load_pet's handlers, in order: except FileNotFoundError, then except   *)
(* Exception                                                              *)
load_pet_handler(exc) ==
    IF "FileNotFoundError" \in Bases(exc) THEN "missing"
    ELSE IF "Exception" \in Bases(exc) THEN "failed"
    ELSE "propagate"

load_pet(filename) ==
    LET openexc == open_error(fs[filename], "r")
        doc     == json_load(fs[filename].data)
        exc     == IF openexc # "" THEN openexc
                   ELSE IF ~doc.ok THEN "JSONDecodeError" ELSE ""
    IN  /\ op' = "load_pet"
        /\ text' = "" /\ slept' = <<>>
        /\ path' = filename
        /\ ret' = IF exc = "" THEN SomeDict(doc.d) ELSE NoDict
        /\ out' = IF exc = "" THEN <<Line("load_ok", filename, 0)>>
                  ELSE IF load_pet_handler(exc) = "missing"
                  THEN <<Line("load_missing", filename, 0)>>
                  ELSE IF load_pet_handler(exc) = "failed"
                  THEN <<Line("load_failed", exc, 0)>>
                  ELSE <<>>
        /\ raised' = IF exc # "" /\ load_pet_handler(exc) = "propagate"
                     THEN exc ELSE ""
        /\ arg' = EmptyDict /\ enemy' = NoDict /\ posargs' = <<>>
        /\ disp' = <<>> /\ bars' = <<>> /\ layout' = <<>>
        /\ logs' = <<>> /\ logview' = <<>>
        /\ trace' = TraceOf(out', disp')
        /\ frames' = <<>>
        /\ after' = After(arg', enemy', logs', frames')
        /\ handles' = with_open(handles, openexc = "", ~doc.ok)
        /\ UNCHANGED steady

(* The records the caller saves: create_pet("Byte", hp=80, hunger=30,     *)
(* mood="happy") with and without extra fields, create_pet("Fluffy"),     *)
(* and dicts the caller built itself.                                     *)
Byte(kwargs) ==
    create_pet(PyStr("Byte"), PyInt(80), PyInt(30), PyStr("happy"), kwargs)

Records ==
    { Byte(<<>>),
      Byte(<<Item(K("happiness"), PyInt(70))>>),
      Byte(<<Item(K("items"), PyList(<<1, 2>>)), Item(K("owner"), PyNone)>>),
      Byte(<<Item(K("pos"), PyTuple(<<1, 2>>))>>),
      Byte(<<Item(K("tags"), PySet)>>),
      Byte(<<Item(K("tags"), PySet), Item(K("happiness"), PyInt(70))>>),
      create_pet(PyStr("Fluffy"), PyInt(DefaultHp), PyInt(DefaultHunger),
                 PyStr("normal"), <<>>),
      EmptyDict,
      <<Item(K("name"), PyStr("Rex")), Item(PyInt(1), PyStr("x"))>>,
      <<Item(PyInt(1), PyStr("x")), Item(K("1"), PyStr("y"))>>,
      <<Item(K("junk"), PySet)>> }

(* what a save file may hold before the library touches it: nothing, an   *)
(* older document with a field of its own, a document cut short, an       *)
(* empty file                                                             *)
OldDocs ==
    { json_dump(<<Item(K("name"), PyStr("Old")), Item(K("legacy"), PyInt(1)),
                  Item(K("hp"), PyInt(5)), Item(K("hunger"), PyInt(5)),
                  Item(K("mood"), PyStr("sad")),
                  Item(K("happiness"), PyInt(5))>>).toks,
      <<Punct("{"), Tok("str", 0, "name"), Punct(":")>>,
      <<>> }

InitPersist ==
    /\ MODE \in Modes
    /\ Loaded
    /\ assets = [m \in Moods |-> "ok"]
    /\ fs \in [Paths -> [kind : {"absent", "file", "nodir", "denied"},
                         data : OldDocs]]
    /\ \A p \in Paths :
          /\ PathKind(p) # "absent" => fs[p] = [kind |-> PathKind(p), data |-> <<>>]
          /\ PathKind(p) = "absent" => fs[p].kind \in {"absent", "file"}
          /\ fs[p].kind = "absent" => fs[p].data = <<>>
    /\ saved = [p \in Paths |-> NoSave]
    /\ heap = <<>>
    /\ pets = <<>>
    /\ NoCall

NextPersist ==
    \/ \E r \in Records, p \in Paths : save_pet(r, p)
    \/ \E p \in Paths : load_pet(p)

SpecPersist == InitPersist /\ [][NextPersist]_vars

(* A record json represents as it is: text keys, and values that are     *)
(* ints, text, None or lists of ints.                                     *)
JSONNative(d) ==
    \A i \in 1..Len(d) :
        d[i].k.t = "str" /\ d[i].v.t \in {"int", "str", "None", "list"}

(* C2: a load_pet that follows a successful save_pet of a                 *)
(* JSON-representable record on the same path returns a record deep-equal *)
(* to it, with exactly its fields; create_pet("Byte", hp=80, hunger=30,   *)
(* mood="happy") comes back as exactly those four fields.                 *)
C2_RoundTrip ==
    (op = "load_pet" /\ saved[path].some /\ saved[path].ok
        /\ JSONNative(saved[path].d)) =>
        /\ ret.some
        /\ DictEq(ret.d, saved[path].d)
        /\ Len(ret.d) = Len(saved[path].d)
        /\ saved[path].d = Byte(<<>>) =>
              ret.d = <<Item(K("name"), PyStr("Byte")), Item(K("hp"), PyInt(80)),
                        Item(K("hunger"), PyInt(30)),
                        Item(K("mood"), PyStr("happy"))>>

(* A record with a list and a None among its fields has been saved and   *)
(* loaded back. *)
C2_Witness ==
    /\ op = "load_pet" /\ saved[path].some /\ saved[path].ok
    /\ JSONNative(saved[path].d)
    /\ ret.some
    /\ HasKey(ret.d, K("items")) /\ Get(ret.d, K("items")) = PyList(<<1, 2>>)
    /\ HasKey(ret.d, K("owner")) /\ Get(ret.d, K("owner")) = PyNone

(* C3: load_pet never raises; on a path that does not exist it returns   *)
(* None and reports the file missing, on malformed content it returns    *)
(* None and reports a read failure, and neither report is ever given for *)
(* the other case.                                                       *)
C3_LoadNeverRaises ==
    op = "load_pet" =>
        /\ raised = ""
        /\ Len(out) = 1
        /\ fs[path].kind \in {"absent", "nodir"} =>
              ~ret.some /\ out = <<Line("load_missing", path, 0)>>
        /\ (fs[path].kind = "file" /\ ~json_load(fs[path].data).ok) =>
              ~ret.some /\ out = <<Line("load_failed", "JSONDecodeError", 0)>>
        /\ out[1].k = "load_missing" => fs[path].kind \in {"absent", "nodir"}
        /\ out[1].k = "load_failed" => fs[path].kind \in {"file", "denied"}
        /\ ret.some <=> out[1].k = "load_ok"

(* load_pet has met the document a failed save left behind. *)
C3_Witness ==
    /\ op = "load_pet" /\ fs[path].kind = "file"
    /\ saved[path].some /\ ~saved[path].ok
    /\ ~ret.some /\ out[1].k = "load_failed"

(* C4: save_pet never raises: it prints either the success line, and the *)
(* file then holds the whole document, or the failure line with the      *)
(* error that occurred (a path that cannot be written, a value that       *)
(* cannot be serialized), and returns.                                   *)
C4_SaveNeverRaises ==
    op = "save_pet" =>
        /\ raised = ""
        /\ Len(out) = 1
        /\ out[1].k \in {"save_ok", "save_failed"}
        /\ out[1].k = "save_ok" <=>
              /\ fs[path].kind = "file"
              /\ json_dump(arg).ok
              /\ fs[path].data = json_dump(arg).toks
        /\ out[1].k = "save_failed" <=>
              \/ out[1].s = "TypeError" /\ ~json_dump(arg).ok
              \/ out[1].s = "FileNotFoundError" /\ fs[path].kind = "nodir"
              \/ out[1].s = "PermissionError" /\ fs[path].kind = "denied"

(* save_pet was given a record with a value json cannot write. *)
C4_Witness ==
    /\ op = "save_pet" /\ raised = ""
    /\ out = <<Line("save_failed", "TypeError", 0)>>
    /\ \E i \in 1..Len(arg) : arg[i].v = PySet

(* C5: once save_pet has succeeded on a path, and until a later save on  *)
(* it fails, the file holds the document of the most recent successful   *)
(* save and nothing else, whatever it held before: load_pet returns that *)
(* record's fields and no others.                                        *)
C5_Overwrite ==
    /\ \A p \in Paths :
          (saved[p].some /\ saved[p].ok) =>
              /\ fs[p].kind = "file"
              /\ fs[p].data = json_dump(saved[p].d).toks
    /\ (op = "load_pet" /\ saved[path].some /\ saved[path].ok) =>
          /\ ret.some
          /\ Keys(ret.d) = {K(KeyStr(k)) : k \in Keys(saved[path].d)}
          /\ JSONNative(saved[path].d) => ret.d = saved[path].d

(* A successful save replaced a longer document, and load_pet read the   *)
(* new one. *)
C5_Witness ==
    /\ op = "load_pet" /\ ret.some
    /\ saved[path].some /\ saved[path].ok
    /\ saved[path].over > Len(fs[path].data)
    /\ ~HasKey(ret.d, K("legacy"))

(* the named fields as the positionals and the defaults give them *)
Seeded(pos) ==
    <<Item(K("name"), IF Len(pos) >= 1 THEN pos[1] ELSE PyNone),
      Item(K("hp"), IF Len(pos) >= 2 THEN pos[2] ELSE ParamDefault(2)),
      Item(K("hunger"), IF Len(pos) >= 3 THEN pos[3] ELSE ParamDefault(3)),
      Item(K("mood"), IF Len(pos) >= 4 THEN pos[4] ELSE ParamDefault(4))>>

NamedKeys == {K(ParamNames[i]) : i \in 1..Len(ParamNames)}

(* C6 as stated: every call (with a name and at most four positionals)   *)
(* returns the seeded fields overlaid with all the caller's keyword      *)
(* fields, the keyword winning where the two collide.                    *)
C6_AsStated ==
    (op = "create_pet" /\ Len(posargs) \in 1..4) =>
        /\ raised = ""
        /\ ret.some
        /\ DictEq(ret.d, DictUpdate(Seeded(posargs), arg))

(* C6, amended: create_pet returns a mapping of the four named fields,   *)
(* each holding the caller's positional or keyword value or else its     *)
(* default (hp 100, hunger 50, mood "normal"), plus every other keyword  *)
(* field, and no other key.  An extra field never collides with a named  *)
(* one: a keyword with a named field's name sets that field, and a call  *)
(* that gives a named field both positionally and by keyword raises      *)
(* TypeError and returns nothing.                                        *)
C6_CreatePet ==
    op = "create_pet" =>
        /\ raised \in {"", "TypeError"}
        /\ raised = "TypeError" <=>
              \/ Len(posargs) > 4
              \/ Len(posargs) = 0 /\ ~HasKey(arg, K("name"))
              \/ \E i \in 1..4 : i <= Len(posargs) /\ HasKey(arg, K(ParamNames[i]))
        /\ raised = "TypeError" => ~ret.some
        /\ raised = "" =>
              /\ ret.some
              /\ Len(ret.d) = Cardinality(Keys(ret.d))
              /\ Keys(ret.d) = NamedKeys \cup Keys(arg)
              /\ \A k \in Keys(arg) : Get(ret.d, k) = Get(arg, k)
              /\ \A i \in 1..4 :
                    ~HasKey(arg, K(ParamNames[i])) =>
                        Get(ret.d, K(ParamNames[i])) = Seeded(posargs)[i].v
              /\ Len(posargs) <= 1 /\ ~HasKey(arg, K("hp")) =>
                    Get(ret.d, K("hp")) = PyInt(100)
              /\ Len(posargs) <= 2 /\ ~HasKey(arg, K("hunger")) =>
                    Get(ret.d, K("hunger")) = PyInt(50)
              /\ Len(posargs) <= 3 /\ ~HasKey(arg, K("mood")) =>
                    Get(ret.d, K("mood")) = PyStr("normal")

(* A call with a positional name and an extra keyword field returned. *)
C6_Witness ==
    /\ op = "create_pet" /\ raised = ""
    /\ Len(posargs) = 1
    /\ ret.some
    /\ HasKey(ret.d, K("happiness"))
    /\ Get(ret.d, K("happiness")) = PyInt(70)
    /\ Get(ret.d, K("hp")) = PyInt(100)

(* C7: the records of two create_pet calls are distinct objects; made    *)
(* with the same arguments they are equal as long as the caller changes  *)
(* neither, and a change of a field of one record changes that record    *)
(* and no other.                                                         *)
C7_Independent ==
    [][ /\ \A i, j \in 1..Len(pets') :
              /\ i # j => pets'[i].ref # pets'[j].ref
              /\ (pets'[i].pos = pets'[j].pos /\ pets'[i].kw = pets'[j].kw
                    /\ pets'[i].pristine /\ pets'[j].pristine) =>
                    DictEq(heap'[pets'[i].ref], heap'[pets'[j].ref])
        /\ op' = "setitem" =>
              \E i \in 1..Len(pets) :
                 /\ heap'[pets[i].ref] # heap[pets[i].ref]
                 /\ \A j \in 1..Len(pets) :
                       j # i => heap'[pets'[j].ref] = heap[pets[j].ref]
        /\ op' = "create_pet" =>
              \A j \in 1..Len(pets) : heap'[pets'[j].ref] = heap[pets[j].ref]
      ]_vars

(* Two records made with the same arguments, one of them changed since. *)
C7_Witness ==
    /\ Len(pets) = 2
    /\ pets[1].pos = pets[2].pos /\ pets[1].kw = pets[2].kw
    /\ ~pets[1].pristine /\ pets[2].pristine
    /\ Get(heap[pets[1].ref], K("hp")) = PyInt(1)
    /\ Get(heap[pets[2].ref], K("hp")) = PyInt(100)

-----------------------------------------------------------------------------
(* The dashboard and the battle log: any mode, any state of the image     *)
(* files, then calls.  A log entry is the number of its message; the logs *)
(* are the runs 1..n and a few with repeated messages.                    *)
MaxDashLogs == 7
MaxLogs     == 12

Run(n) == [i \in 1..n |-> i]

Players ==
    { EmptyDict,
      <<Item(K("name"), PyStr("Hero")), Item(K("hp"), PyInt(40))>>,
      <<Item(K("name"), PyStr("Hero")), Item(K("hp"), PyInt(29)),
        Item(K("max_hp"), PyInt(100)), Item(K("mood"), PyStr("happy"))>>,
      <<Item(K("hp"), PyInt(40)), Item(K("max_hp"), PyInt(0)),
        Item(K("mood"), PyStr("angry"))>> }

Enemies ==
    { NoDict, SomeDict(EmptyDict),
      SomeDict(<<Item(K("name"), PyStr("Slime")), Item(K("hp"), PyInt(10)),
                 Item(K("max_hp"), PyInt(50))>>) }

Repeats == { <<1, 1>>, <<2, 1, 2>>, <<1, 2, 2, 1, 1, 2, 1>> }

InitDash ==
    /\ MODE \in Modes
    /\ Loaded
    /\ assets \in [Moods -> {"ok", "missing", "unreadable"}]
    /\ fs = [p \in Paths |-> [kind |-> PathKind(p), data |-> <<>>]]
    /\ saved = [p \in Paths |-> NoSave]
    /\ heap = <<>>
    /\ pets = <<>>
    /\ NoCall

NextDash ==
    \/ \E pl \in Players, en \in Enemies,
          lg \in {Run(n) : n \in 0..MaxDashLogs} \cup Repeats :
          show_dashboard(pl, en, lg)
    \/ \E lg \in {Run(n) : n \in 0..MaxLogs} \cup Repeats : show_battle_log(lg)

SpecDash == InitDash /\ [][NextDash]_vars

(* C8 as stated: in either mode show_dashboard shows the last min(n,5)   *)
(* entries, the most recent first.                                       *)
C8_AsStated ==
    (op = "show_dashboard" /\ raised = "") =>
        /\ Len(logview) = Min(Len(logs), 5)
        /\ \A i \in 1..Len(logview) : logview[i] = logs[Len(logs) - i + 1]

(* C8, amended: every dashboard show_dashboard renders in JUPYTER mode   *)
(* shows the last min(n,5) log entries, the most recent first; in        *)
(* TERMINAL mode it prints the last min(n,3) entries, the oldest first;  *)
(* in no case does it show an entry older than the last 5.               *)
C8_DashboardLogs ==
    op = "show_dashboard" =>
        /\ (MODE = "JUPYTER" /\ raised = "") =>
              /\ Len(logview) = Min(Len(logs), 5)
              /\ \A i \in 1..Len(logview) :
                    logview[i] = logs[Len(logs) - i + 1]
        /\ MODE = "TERMINAL" =>
              /\ raised = ""
              /\ Len(logview) = Min(Len(logs), 3)
              /\ \A i \in 1..Len(logview) :
                    logview[i] = logs[Len(logs) - Len(logview) + i]
              /\ SubSeq(out, Len(out) - Len(logview) + 1, Len(out))
                    = [i \in 1..Len(logview) |-> Line("log", "", logview[i])]
        /\ raised # "" => logview = <<>>
        /\ Len(logview) <= 5

(* A rendered dashboard with more than five log entries, and so with the *)
(* sixth-newest left out. *)
C8_Witness ==
    /\ op = "show_dashboard" /\ MODE = "JUPYTER" /\ raised = ""
    /\ logs = Run(7)
    /\ logview = <<7, 6, 5, 4, 3>>

(* C9: without an enemy record the rendered dashboard has two slots, the *)
(* player card and then an empty slot of the card's width.               *)
C9_AsStated ==
    (op = "show_dashboard" /\ MODE = "JUPYTER" /\ raised = "" /\ ~enemy.some) =>
        /\ Len(layout) = 2
        /\ layout[1].kind = "card" /\ ~layout[1].enemy
        /\ layout[2].kind = "empty"
        /\ layout[2].width = layout[1].width

(* C10 as stated: in either mode show_battle_log shows the last          *)
(* min(n,10) lines, the newest first.                                    *)
C10_AsStated ==
    op = "show_battle_log" =>
        /\ Len(logview) = Min(Len(logs), 10)
        /\ \A i \in 1..Len(logview) : logview[i] = logs[Len(logs) - i + 1]

(* C10, amended: in JUPYTER mode show_battle_log shows the last          *)
(* min(n,10) lines, the newest first; in TERMINAL mode it prints the     *)
(* last min(n,5) lines, the oldest first; it never raises and never      *)
(* shows a line older than the last 10.                                  *)
C10_BattleLog ==
    op = "show_battle_log" =>
        /\ raised = ""
        /\ MODE = "JUPYTER" =>
              /\ Len(logview) = Min(Len(logs), 10)
              /\ \A i \in 1..Len(logview) :
                    logview[i] = logs[Len(logs) - i + 1]
              /\ Len(disp) = 1
        /\ MODE = "TERMINAL" =>
              /\ Len(logview) = Min(Len(logs), 5)
              /\ \A i \in 1..Len(logview) :
                    logview[i] = logs[Len(logs) - Len(logview) + i]
              /\ out = <<Line("BATTLE LOG", "", 0)>>
                       \o [i \in 1..Len(logview) |-> Line("log", "", logview[i])]
        /\ Len(logview) <= 10

(* A battle log of twelve lines, shown without its two oldest. *)
C10_Witness ==
    /\ op = "show_battle_log" /\ MODE = "JUPYTER"
    /\ logs = Run(12)
    /\ logview = <<12, 11, 10, 9, 8, 7, 6, 5, 4, 3>>

-----------------------------------------------------------------------------
(* HUD *)

HudGood == GREEN
HudBad  == RED

HudHalf == 50

(* render_hud: the two-level colour of the HP bar, from the percentage *)
hud_color(hp_percent) == IF hp_percent > HudHalf THEN HudGood ELSE HudBad

(* render_hud.  TERMINAL: two printed lines, hp read with default 0.       *)
(* JUPYTER: hp read with default 100; hp / max_hp is evaluated with no     *)
(* guard, so max_hp = 0 raises ZeroDivisionError before anything is shown; *)
(* the bar is min(100, max(0, int(hp / max_hp * 100))) percent wide.       *)
render_hud(player) ==
    /\ op' = "render_hud"
    /\ text' = "" /\ slept' = <<>>
    /\ arg' = player
    /\ IF MODE = "TERMINAL"
       THEN /\ out' = <<Line("HUD", "", 0),
                        Line("hud",
                             Show(GetOr(player, K("name"), PyStr("Player")))
                             \o " | HP: "
                             \o Show(GetOr(player, K("hp"), PyInt(0)))
                             \o "/"
                             \o Show(GetOr(player, K("max_hp"), PyInt(100)))
                             \o " | Gold: "
                             \o Show(GetOr(player, K("gold"), PyInt(0))),
                             0)>>
            /\ raised' = "" /\ bars' = <<>> /\ disp' = <<>>
       ELSE LET hp     == GetOr(player, K("hp"), PyInt(100)).n
                max_hp == GetOr(player, K("max_hp"), PyInt(100)).n
                gold   == GetOr(player, K("gold"), PyInt(0)).n
            IN  /\ out' = <<>>
                /\ IF max_hp = 0
                   THEN /\ raised' = "ZeroDivisionError"
                        /\ bars' = <<>> /\ disp' = <<>>
                   ELSE LET hp_percent ==
                                Min(100, Max(0, py_percent(hp, max_hp)))
                        IN  /\ raised' = ""
                            /\ bars' = <<[label |-> "HP", value |-> hp,
                                          color |-> hud_color(hp_percent),
                                          width |-> hp_percent]>>
                            /\ disp' = render_html(MODE)
    /\ posargs' = <<>> /\ enemy' = NoDict /\ path' = "" /\ ret' = NoDict
    /\ layout' = <<>> /\ logs' = <<>> /\ logview' = <<>>
    /\ trace' = TraceOf(out', disp')
    /\ frames' = <<>>
    /\ after' = After(after_gets(player,
                                 <<<<K("name"), PyStr("Player")>>,
                                   <<K("hp"), IF MODE = "TERMINAL"
                                              THEN PyInt(0) ELSE PyInt(100)>>,
                                   <<K("max_hp"), PyInt(100)>>,
                                   <<K("gold"), PyInt(0)>>>>),
                      enemy', logs', frames')
    /\ UNCHANGED world

(* the records the HUD is given: any subset of hp and max_hp, with and    *)
(* without name and gold                                                  *)
HudHp  == {0 - 10, 0, 29, 40, 50, 51, 100, 101, 102}
HudMax == {0 - 100, 0, 50, 100, 200}

Field(k, vs) == {EmptyDict} \cup {<<Item(K(k), v)>> : v \in vs}

HudPlayers ==
    {a \o b \o c :
        a \in Field("name", {PyStr("Hero")}),
        b \in Field("hp", {PyInt(n) : n \in HudHp}),
        c \in Field("max_hp", {PyInt(n) : n \in HudMax})}
    \cup {b \o c \o <<Item(K("gold"), PyInt(50))>> :
             b \in Field("hp", {PyInt(40)}),
             c \in Field("max_hp", {PyInt(100)})}
    \cup {<<Item(K("name"), PyStr("Hero")), Item(K("hp"), PyInt(40)),
            Item(K("max_hp"), PyInt(100)), Item(K("gold"), PyInt(50))>>}

(* the players the dashboard is given: those with no name *)
DashPlayers == {p \in HudPlayers : ~HasKey(p, K("name"))}

(* open(path, "rb") is reached and returns a file *)
image_opens(mood) == get_img_path(mood) /\ assets[mood] = "ok"

(* show_image, as show_pet calls it in JUPYTER mode: nothing when the file *)
(* is not found, a printed line when it cannot be read, the image through *)
(* _render_html otherwise                                                 *)
show_image(mode, mood) ==
    IF ~get_img_path(mood) THEN [out |-> <<>>, disp |-> <<>>]
    ELSE IF assets[mood] = "unreadable"
    THEN [out |-> <<Line("Error loading image", "", 0)>>, disp |-> <<>>]
    ELSE [out |-> <<>>, disp |-> render_html(mode)]

(* show_pet_dict: reads name, hp, hunger, happiness and mood with the      *)
(* defaults 'Unknown', 0, 0, None and 'normal', then show_pet(mood) and    *)
(* show_stats(name, hp, hunger, happiness)                                 *)
show_pet_dict(pet_data) ==
    LET name   == GetOr(pet_data, K("name"), PyStr("Unknown"))
        hp     == GetOr(pet_data, K("hp"), PyInt(0)).n
        hunger == GetOr(pet_data, K("hunger"), PyInt(0)).n
        happiness == GetOr(pet_data, K("happiness"), PyNone)
        mood   == Show(GetOr(pet_data, K("mood"), PyStr("normal")))
    IN  /\ op' = "show_pet_dict"
        /\ text' = "" /\ slept' = <<>>
        /\ arg' = pet_data
        /\ raised' = ""
        /\ IF MODE = "TERMINAL"
           THEN /\ out' = <<Line("Pet is", mood, 0),
                            Line("name", Show(name), 0),
                            Line("HP", "", hp), Line("Hunger", "", hunger)>>
                          \o (IF happiness.t # "None"
                              THEN <<Line("Happy", "", happiness.n)>>
                              ELSE <<>>)
                /\ bars' = <<>>
                /\ disp' = <<>>
           ELSE /\ out' = show_image(MODE, mood).out
                /\ bars' = <<create_bar_html("HP", hp),
                             create_bar_html("Hunger", hunger)>>
                           \o (IF happiness.t # "None"
                               THEN <<create_bar_html("Happiness", happiness.n)>>
                               ELSE <<>>)
                /\ disp' = show_image(MODE, mood).disp \o render_html(MODE)
        /\ posargs' = <<>> /\ enemy' = NoDict /\ path' = "" /\ ret' = NoDict
        /\ layout' = <<>> /\ logs' = <<>> /\ logview' = <<>>
        /\ trace' = TraceOf(out', disp')
        /\ frames' = <<>>
        /\ after' = After(after_gets(pet_data,
                                     <<<<K("name"), PyStr("Unknown")>>,
                                       <<K("hp"), PyInt(0)>>,
                                       <<K("hunger"), PyInt(0)>>,
                                       <<K("happiness"), PyNone>>,
                                       <<K("mood"), PyStr("normal")>>>>),
                          enemy', logs', frames')
        /\ handles' = IF MODE = "TERMINAL" THEN handles
                      ELSE with_open(handles, image_opens(mood), FALSE)
        /\ UNCHANGED steady

PetDicts ==
    {a \o b \o c \o d \o e :
        a \in Field("name", {PyStr("Fluffy")}),
        b \in Field("hp", {PyInt(80)}),
        c \in Field("hunger", {PyInt(30)}),
        d \in Field("happiness", {PyInt(70)}),
        e \in Field("mood", {PyStr("happy"), PyStr("sad")})}

HudEnemies ==
    {NoDict, SomeDict(EmptyDict),
     SomeDict(<<Item(K("hp"), PyInt(0 - 5)), Item(K("max_hp"), PyInt(0))>>)}

(* The record readers and the stat panel side by side.  The image files   *)
(* are all in place or all missing.                                       *)
InitHud ==
    /\ MODE \in Modes
    /\ Loaded
    /\ assets \in {[m \in Moods |-> "ok"], [m \in Moods |-> "missing"]}
    /\ fs = [p \in Paths |-> [kind |-> PathKind(p), data |-> <<>>]]
    /\ saved = [p \in Paths |-> NoSave]
    /\ heap = <<>>
    /\ pets = <<>>
    /\ NoCall

NextHud ==
    \/ \E p \in HudPlayers : render_hud(p)
    \/ \E p \in DashPlayers, e \in HudEnemies : show_dashboard(p, e, <<>>)
    \/ \E p \in PetDicts : show_pet_dict(p)
    \/ \E v \in HudHp : show_stats(v, WarningBelow, Nothing)

SpecHud == InitHud /\ [][NextHud]_vars

(* C11: for every record with integer hp and positive integer max_hp the   *)
(* HUD bar is "good" exactly when hp / max_hp is more than one half, and   *)
(* "bad" otherwise.                                                        *)
C11_AsStated ==
    (/\ op = "render_hud" /\ MODE = "JUPYTER"
     /\ HasKey(arg, K("hp")) /\ HasKey(arg, K("max_hp"))
     /\ GetOr(arg, K("max_hp"), PyInt(1)).n > 0) =>
        /\ raised = ""
        /\ Len(bars) = 1
        /\ bars[1].color =
              (IF 2 * GetOr(arg, K("hp"), PyInt(0)).n
                     > GetOr(arg, K("max_hp"), PyInt(1)).n
               THEN HudGood ELSE HudBad)

(* clamp(v, 0, 100) *)
Clamp(v) == Max(0, Min(v, BarMax))

(* C12: the fill of every bar show_stats renders is clamp(value, 0, 100)   *)
(* percent wide, never below 0 and never above 100.                       *)
C12_AsStated ==
    (op = "show_stats" /\ MODE = "JUPYTER") =>
        \A i \in 1..Len(bars) :
            /\ bars[i].width = Clamp(bars[i].value)
            /\ bars[i].width >= 0
            /\ bars[i].width <= BarMax

-----------------------------------------------------------------------------
(* Sound, and the presenters that play one *)

SOUND_LIBRARY == {SoundTags[i] : i \in 1..Len(SoundTags)}

(* ', '.join(keys) *)
RECURSIVE Join(_)
Join(ss) ==
    IF ss = <<>> THEN ""
    ELSE IF Len(ss) = 1 THEN ss[1]
    ELSE ss[1] \o ", " \o Join(Tail(ss))

(* every tag taken as known *)
sound_known_any(tag) == TRUE

(* a library that knows no tag *)
sound_known_none(tag) == FALSE

(* sound_name in SOUND_LIBRARY *)
sound_known(tag) == \E i \in 1..Len(sound_library) : sound_library[i] = tag

(* The body of play_sound: what it prints and what it hands to display(). *)
(* TERMINAL: one printed line, whatever the tag.  JUPYTER: an unknown tag *)
(* prints two lines; a known one goes to display(Audio(...)) directly,    *)
(* inside a try whose handler prints; shown tells whether that call       *)
(* returned.  Nothing leaves play_sound.                                  *)
play_sound_body(mode, tag, shown) ==
    IF mode = "TERMINAL"
    THEN [out |-> <<Line("SOUND Playing", tag, 0)>>, disp |-> <<>>]
    ELSE IF ~sound_known(tag)
    THEN [out |-> <<Line("Unknown sound", tag, 0),
                    Line("Available sounds", Join(sound_library), 0)>>,
          disp |-> <<>>]
    ELSE IF shown
    THEN [out |-> <<>>,
          disp |-> <<[via |-> "play_sound", kind |-> "audio"]>>]
    ELSE [out |-> <<Line("Failed to play sound", "", 0)>>, disp |-> <<>>]

play_sound(tag, shown) ==
    /\ op' = "play_sound"
    /\ text' = tag
    /\ out' = play_sound_body(MODE, tag, shown).out
    /\ disp' = play_sound_body(MODE, tag, shown).disp
    /\ raised' = "" /\ slept' = <<>>
    /\ posargs' = <<>> /\ arg' = EmptyDict /\ enemy' = NoDict /\ path' = ""
    /\ ret' = NoDict /\ bars' = <<>>
    /\ layout' = <<>> /\ logs' = <<>> /\ logview' = <<>>
    /\ trace' = TraceOf(out', disp')
    /\ frames' = <<>>
    /\ after' = After(arg', enemy', logs', frames')
    /\ UNCHANGED world

(* celebrate: ten printed lines in TERMINAL mode; in JUPYTER mode the      *)
(* banner through _render_html, then play_sound("level_up")                *)
celebrate(shown) ==
    /\ op' = "celebrate"
    /\ text' = ""
    /\ IF MODE = "TERMINAL"
       THEN /\ out' = <<Line("CONGRATULATIONS", "", 0)>>
                      \o [i \in 1..8 |-> Line("trophy", "", i)]
                      \o <<Line("SOUND Playing level_up sound", "", 0)>>
            /\ disp' = <<>>
       ELSE /\ out' = play_sound_body(MODE, "level_up", shown).out
            /\ disp' = render_html(MODE)
                       \o play_sound_body(MODE, "level_up", shown).disp
    /\ raised' = "" /\ slept' = <<>>
    /\ posargs' = <<>> /\ arg' = EmptyDict /\ enemy' = NoDict /\ path' = ""
    /\ ret' = NoDict /\ bars' = <<>>
    /\ layout' = <<>> /\ logs' = <<>> /\ logview' = <<>>
    /\ trace' = IF MODE = "TERMINAL" THEN Prints(out')
                ELSE Shows(render_html(MODE))
                     \o TraceOf(play_sound_body(MODE, "level_up", shown).out,
                                play_sound_body(MODE, "level_up", shown).disp)
    /\ frames' = <<>>
    /\ after' = After(arg', enemy', logs', frames')
    /\ UNCHANGED world

(* show_credits: the credit lines and a sound line printed in TERMINAL     *)
(* mode; in JUPYTER mode the credits through _render_html, then            *)
(* play_sound("heal")                                                      *)
show_credits(author_name, shown) ==
    /\ op' = "show_credits"
    /\ text' = author_name
    /\ IF MODE = "TERMINAL"
       THEN /\ out' = <<Line("CREDITS", "", 0),
                        Line("Director", author_name, 0),
                        Line("Art: Ys the Cat", "", 0),
                        Line("Engine: Python 3", "", 0),
                        Line("Library: pet_lib v5.0", "", 0),
                        Line("Based on: Cyber-Pet Course", "", 0),
                        Line("THANK YOU FOR PLAYING!", "", 0),
                        Line("SOUND Playing heal sound", "", 0)>>
            /\ disp' = <<>>
       ELSE /\ out' = play_sound_body(MODE, "heal", shown).out
            /\ disp' = render_html(MODE)
                       \o play_sound_body(MODE, "heal", shown).disp
    /\ raised' = "" /\ slept' = <<>>
    /\ posargs' = <<>> /\ arg' = EmptyDict /\ enemy' = NoDict /\ path' = ""
    /\ ret' = NoDict /\ bars' = <<>>
    /\ layout' = <<>> /\ logs' = <<>> /\ logview' = <<>>
    /\ trace' = IF MODE = "TERMINAL" THEN Prints(out')
                ELSE Shows(render_html(MODE))
                     \o TraceOf(play_sound_body(MODE, "heal", shown).out,
                                play_sound_body(MODE, "heal", shown).disp)
    /\ frames' = <<>>
    /\ after' = After(arg', enemy', logs', frames')
    /\ UNCHANGED world


(* the events of the steps of a call, one step after another *)
RECURSIVE Flatten(_)
Flatten(seqs) == IF seqs = <<>> THEN <<>> ELSE Head(seqs) \o Flatten(Tail(seqs))

(* time.sleep(t) raises ValueError for a negative t *)
sleep_error(t) == IF t < 0 THEN "ValueError" ELSE ""

(* simulate_api with one pause of the whole latency in either mode *)
api_pauses_whole(mode, latency) == <<latency>>

(* the pauses of simulate_api: time.sleep(latency) in TERMINAL mode,       *)
(* time.sleep(latency / 2) twice in JUPYTER mode                           *)
api_pauses(mode, latency) ==
    IF mode = "TERMINAL" THEN <<latency>>
    ELSE <<latency \div 2, latency \div 2>>

(* simulate_api; latency in milliseconds.  TERMINAL: two lines, one sleep  *)
(* of the whole latency, the response line.  JUPYTER: a line, the payload  *)
(* handed to display(HTML(...)) by simulate_api itself, then two sleeps of *)
(* half the latency with a line after each.  json.dumps(data) and          *)
(* time.sleep have no handler around them.                                 *)
simulate_api(endpoint, data, latency) ==
    /\ op' = "simulate_api"
    /\ text' = endpoint
    /\ arg' = data
    /\ IF MODE = "TERMINAL"
       THEN /\ disp' = <<>>
            /\ raised' = sleep_error(latency)
            /\ IF sleep_error(latency) # ""
               THEN /\ out' = <<Line("POST", endpoint, 0),
                                Line("Data", "", Len(data))>>
                    /\ slept' = <<>>
               ELSE /\ out' = <<Line("POST", endpoint, 0),
                                Line("Data", "", Len(data)),
                                Line("Response: 200 OK", "", 0)>>
                    /\ slept' = api_pauses(MODE, latency)
       ELSE IF ~json_dump(data).ok
       THEN /\ out' = <<Line("Sending data to", endpoint, 0)>>
            /\ raised' = "TypeError"
            /\ disp' = <<>> /\ slept' = <<>>
       ELSE /\ disp' = <<[via |-> "simulate_api", kind |-> "html"]>>
            /\ raised' = sleep_error(latency)
            /\ IF sleep_error(latency) # ""
               THEN /\ out' = <<Line("Sending data to", endpoint, 0)>>
                    /\ slept' = <<>>
               ELSE /\ out' = <<Line("Sending data to", endpoint, 0),
                                Line("Processing in Cloud", "", 0),
                                Line("Response received (200 OK)", "", 0)>>
                    /\ slept' = api_pauses(MODE, latency)
    /\ posargs' = <<PyInt(latency)>> /\ enemy' = NoDict /\ path' = ""
    /\ ret' = NoDict /\ bars' = <<>>
    /\ layout' = <<>> /\ logs' = <<>> /\ logview' = <<>>
    /\ trace' =
          IF MODE = "TERMINAL"
          THEN Prints(SubSeq(out', 1, 2))
               \o (IF raised' # "" THEN <<>>
                   ELSE <<Slept(slept'[1])>> \o Prints(SubSeq(out', 3, 3)))
          ELSE Prints(SubSeq(out', 1, 1)) \o Shows(disp')
               \o (IF raised' # "" THEN <<>>
                   ELSE Flatten([i \in 1..Len(slept') |->
                           <<Slept(slept'[i]), Printed(out'[i + 1])>>]))
    /\ frames' = <<>>
    /\ after' = After(arg', enemy', logs', frames')
    /\ UNCHANGED world

(* The presenters that reach the display surface, with tags in and out of  *)
(* the sound library.                                                      *)
Tags == SOUND_LIBRARY \cup {"not_a_real_tag", ""}

Payloads == {EmptyDict,
             <<Item(K("msg"), PyStr("hi"))>>,
             <<Item(K("hp"), PyInt(5)), Item(K("tags"), PySet)>>}

Latencies == {0 - 1000, 0, 1000, 2000}

InitPresent ==
    /\ MODE \in Modes
    /\ Loaded
    /\ PlainWorld
    /\ NoCall

NextPresent ==
    \/ \E t \in Tags, shown \in BOOLEAN : play_sound(t, shown)
    \/ \E shown \in BOOLEAN : celebrate(shown)
    \/ \E shown \in BOOLEAN : show_credits("Ada", shown)
    \/ \E e \in {"/chat", "/feed"}, d \in Payloads, l \in Latencies :
          simulate_api(e, d, l)
    \/ \E p \in HudPlayers : render_hud(p)
    \/ \E v \in StatSamples : show_stats(v, v, Some(v))

SpecPresent == InitPresent /\ [][NextPresent]_vars

(* C13: for a tag that is not in the sound library play_sound hands no     *)
(* audio object to the display surface and raises nothing, in either mode. *)
C13_UnknownTagSilent ==
    (op = "play_sound" /\ text \notin SOUND_LIBRARY) =>
        /\ raised = ""
        /\ disp = <<>>

(* an unknown tag in JUPYTER mode: the two diagnostic lines, no audio *)
C13_Witness ==
    /\ op = "play_sound" /\ MODE = "JUPYTER"
    /\ text = "not_a_real_tag"
    /\ raised = "" /\ disp = <<>>
    /\ Len(out) = 2

(* C14: for a tag that is not in the sound library play_sound prints the   *)
(* list of available tags and never reports that the tag is playing.       *)
C14_AsStated ==
    (op = "play_sound" /\ text \notin SOUND_LIBRARY) =>
        /\ \E i \in 1..Len(out) :
              /\ out[i].k = "Available sounds"
              /\ out[i].s = "attack, hit, level_up, game_over, bgm, heal"
        /\ \A i \in 1..Len(out) : out[i].k # "SOUND Playing"

-----------------------------------------------------------------------------
(* Module load *)

Versions == {"v1.0", "v1.1", "v2.0", "v3.0", "v5.0"}

(* the versions whose except ImportError branch prints a warning *)
WarnVersions == {"v1.0", "v1.1"}

(* try: from IPython.display import ...; MODE = "JUPYTER"                  *)
(* except ImportError: MODE = "TERMINAL"                                   *)
detect_mode(capability) == IF capability THEN "JUPYTER" ELSE "TERMINAL"

(* the module body run by every import statement *)
mode_on_import_again(loaded, mode, capability) == detect_mode(capability)

(* the module body runs on the first import of the process only: a later   *)
(* import statement finds the module in sys.modules                        *)
mode_on_import(loaded, mode, capability) ==
    IF loaded THEN mode ELSE detect_mode(capability)

(* what the module body prints *)
import_warning(v, capability) ==
    IF ~capability /\ v \in WarnVersions
    THEN <<Line("IPython not found. Running in TERMINAL mode", "", 0)>>
    ELSE <<>>

(* import pet_lib, from the directory of version v.  The ImportError of    *)
(* the probe is caught by the module itself.                              *)
import_pet_lib(v) ==
    /\ op' = IF version = "" THEN "import pet_lib" ELSE "import pet_lib again"
    /\ text' = v
    /\ MODE' = mode_on_import(version # "", MODE, ipython)
    /\ IF version = ""
       THEN /\ version' = v
            /\ out' = import_warning(v, ipython)
       ELSE /\ version' = version
            /\ out' = <<>>
    /\ raised' = "" /\ slept' = <<>> /\ disp' = <<>>
    /\ posargs' = <<>> /\ arg' = EmptyDict /\ enemy' = NoDict /\ path' = ""
    /\ ret' = NoDict /\ bars' = <<>>
    /\ layout' = <<>> /\ logs' = <<>> /\ logview' = <<>>
    /\ trace' = TraceOf(out', disp')
    /\ frames' = <<>>
    /\ after' = After(arg', enemy', logs', frames')
    /\ UNCHANGED <<ipython, sound_library, handles, assets, fs, saved, heap,
                 pets>>

(* the environment: IPython is installed or removed while the process runs *)
set_ipython(available) ==
    /\ ipython' = available
    /\ op' = "environment"
    /\ text' = ""
    /\ raised' = "" /\ slept' = <<>> /\ disp' = <<>> /\ out' = <<>>
    /\ posargs' = <<>> /\ arg' = EmptyDict /\ enemy' = NoDict /\ path' = ""
    /\ ret' = NoDict /\ bars' = <<>>
    /\ layout' = <<>> /\ logs' = <<>> /\ logview' = <<>>
    /\ trace' = TraceOf(out', disp')
    /\ frames' = <<>>
    /\ after' = After(arg', enemy', logs', frames')
    /\ UNCHANGED <<MODE, version, sound_library, handles, assets, fs, saved,
                 heap, pets>>

(* A process from its start: nothing imported, IPython there or not; then  *)
(* imports, changes of the environment, and the operations of v5.0.        *)
InitLoad ==
    /\ MODE = "UNSET"
    /\ version = ""
    /\ ipython \in BOOLEAN
    /\ PlainWorld
    /\ NoCall

Hero == <<Item(K("name"), PyStr("Hero")), Item(K("hp"), PyInt(40)),
          Item(K("max_hp"), PyInt(100)), Item(K("gold"), PyInt(50))>>

(* the library's functions exist once v5.0 is imported *)
V5 == version = "v5.0"

NextLoad ==
    \/ \E v \in Versions : import_pet_lib(v)
    \/ \E b \in BOOLEAN : set_ipython(b)
    \/ V5 /\ show_stats(40, WarningBelow, Nothing)
    \/ V5 /\ render_hud(Hero)
    \/ V5 /\ show_dashboard(Hero, NoDict, Run(2))
    \/ V5 /\ show_battle_log(Run(2))
    \/ V5 /\ call_create_pet(<<PyStr("Fluffy")>>, <<>>)
    \/ V5 /\ \E i \in 1..MaxPets : setitem(i, K("hp"), PyInt(1))
    \/ V5 /\ save_pet(Hero, "t.json")
    \/ V5 /\ \E p \in Paths : load_pet(p)
    \/ V5 /\ \E t \in {"heal", "not_a_real_tag"} : play_sound(t, TRUE)
    \/ V5 /\ celebrate(TRUE)
    \/ V5 /\ show_credits("Ada", TRUE)
    \/ V5 /\ simulate_api("/chat", Hero, 1000)

SpecLoad == InitLoad /\ [][NextLoad]_vars

(* C15: once the module is loaded the mode is the same in every state: no  *)
(* operation, no later import and no change of the environment assigns it. *)
C15_ModeFixed == [][(MODE \in Modes) => (MODE' = MODE)]_vars

(* IPython became importable after a load without it; a presenter has run  *)
(* since, and the mode is still TERMINAL                                   *)
C15_Witness ==
    /\ version = "v5.0" /\ MODE = "TERMINAL"
    /\ ipython
    /\ op = "render_hud" /\ Len(out) = 2

(* C17: when the display capability can be acquired the mode is JUPYTER;   *)
(* when it cannot, the mode is TERMINAL, exactly one warning is printed    *)
(* and no exception propagates; in every version.                          *)
C17_AsStated ==
    (op = "import pet_lib") =>
        /\ raised = ""
        /\ ipython => MODE = "JUPYTER"
        /\ ~ipython =>
              /\ MODE = "TERMINAL"
              /\ Len(out) = 1
              /\ out[1].k = "IPython not found. Running in TERMINAL mode"

(* C16: render_hud and show_dashboard return normally for every record     *)
(* whose fields are absent or hold any integers, in both modes.            *)
C16_AsStated ==
    (op \in {"render_hud", "show_dashboard"}) => raised = ""

(* the defaults of the data model *)
DefaultMaxHp == PyInt(100)
DefaultGold  == PyInt(0)

(* C18: whatever fields a record lacks, each reader shows the entity with  *)
(* a default in the place of every absent field: the HUD draws its bar or  *)
(* prints its line with max_hp 100 and gold 0, the pet panel has its HP    *)
(* and hunger bars or lines, the dashboard has the player's card or the    *)
(* player's line with a name and an hp.                                    *)
C18_AsStated ==
    /\ (op = "render_hud" /\ MODE = "TERMINAL") =>
          \E name \in {"Player", "Hero"}, hp \in HudHp \cup {100} :
              out[2].s = name \o " | HP: " \o ToString(hp) \o "/"
                         \o Show(GetOr(arg, K("max_hp"), DefaultMaxHp))
                         \o " | Gold: "
                         \o Show(GetOr(arg, K("gold"), DefaultGold))
    /\ (op = "render_hud" /\ MODE = "JUPYTER" /\ raised = "") =>
          /\ Len(bars) = 1
          /\ bars[1].width =
                Min(100, Max(0, py_percent(bars[1].value,
                                GetOr(arg, K("max_hp"), DefaultMaxHp).n)))
    /\ (op = "show_pet_dict" /\ MODE = "JUPYTER") =>
          /\ Len(bars) >= 2
          /\ disp # <<>>
    /\ (op = "show_pet_dict" /\ MODE = "TERMINAL") => Len(out) >= 4
    /\ (op = "show_dashboard" /\ MODE = "JUPYTER" /\ raised = "") =>
          \E i \in 1..Len(layout) :
              layout[i].kind = "card" /\ ~layout[i].enemy
    /\ (op = "show_dashboard" /\ MODE = "TERMINAL") =>
          /\ out[2].k = "Player" /\ out[2].s # "None"
          /\ out[3].k = "HP" /\ out[3].s # "None"

-----------------------------------------------------------------------------
(* The stat panel of v2.0 (src/v2.0/pet_lib.py) *)

(* v2.0's _get_bar_color: the same thresholds as v5.0's *)
get_bar_color_v2(value) ==
    IF value < 20 THEN RED
    ELSE IF value < 50 THEN ORANGE
    ELSE GREEN

(* the colour taken from the value itself, whatever reverse_color says *)
create_bar_html_v2_direct(label, value, reverse_color) ==
    [label |-> label, value |-> value,
     color |-> get_bar_color_v2(value), width |-> Min(value, 100)]

(* v2.0's show_stats._create_bar_html: with reverse_color the colour is    *)
(* that of 100 - value; the label and the fill use value itself            *)
create_bar_html_v2(label, value, reverse_color) ==
    [label |-> label, value |-> value,
     color |-> get_bar_color_v2(IF reverse_color THEN 100 - value ELSE value),
     width |-> Min(value, 100)]

(* v2.0's show_stats: the Hunger bar is the one made with reverse_color *)
show_stats_v2(hp, hunger, happiness) ==
    /\ op' = "show_stats v2.0"
    /\ text' = "" /\ slept' = <<>>
    /\ raised' = ""
    /\ posargs' = <<PyInt(hp), PyInt(hunger)>>
                  \o (IF happiness.some THEN <<PyInt(happiness.n)>> ELSE <<>>)
    /\ IF MODE = "TERMINAL"
       THEN /\ out' = <<Line("name", "", 0), Line("HP", "", hp),
                        Line("Hunger", "", hunger)>>
                      \o (IF happiness.some
                          THEN <<Line("Happy", "", happiness.n)>> ELSE <<>>)
            /\ bars' = <<>>
            /\ disp' = <<>>
       ELSE /\ out' = <<>>
            /\ bars' = <<create_bar_html_v2("HP", hp, FALSE),
                         create_bar_html_v2("Hunger", hunger, TRUE)>>
                       \o (IF happiness.some
                           THEN <<create_bar_html_v2("Happiness",
                                                     happiness.n, FALSE)>>
                           ELSE <<>>)
            /\ disp' = render_html(MODE)
    /\ arg' = EmptyDict /\ enemy' = NoDict /\ path' = "" /\ ret' = NoDict
    /\ layout' = <<>> /\ logs' = <<>> /\ logview' = <<>>
    /\ trace' = TraceOf(out', disp')
    /\ frames' = <<>>
    /\ after' = After(arg', enemy', logs', frames')
    /\ UNCHANGED world

InitStatsV2 ==
    /\ MODE \in Modes
    /\ version = "v2.0"
    /\ ipython = (MODE = "JUPYTER")
    /\ PlainWorld
    /\ NoCall

NextStatsV2 == \E a \in StatArgs : show_stats_v2(a[1], a[2], a[3])

SpecStatsV2 == InitStatsV2 /\ [][NextStatsV2]_vars

(* C19: in v2.0 the hunger bar is coloured by the class of 100 - hunger:   *)
(* critical above 80, warning above 50 up to 80, nominal up to 50; the HP  *)
(* and happiness bars are coloured by the class of their own value; the    *)
(* label and the fill of the hunger bar are those of the hunger given.     *)
C19_HungerInverted ==
    (op = "show_stats v2.0" /\ MODE = "JUPYTER") =>
        /\ Len(bars) = Len(posargs)
        /\ bars[1].label = "HP" /\ bars[2].label = "Hunger"
        /\ bars[2].value = posargs[2].n
        /\ bars[2].width = Min(posargs[2].n, 100)
        /\ bars[2].color = ClassColor(StatClass(100 - posargs[2].n))
        /\ bars[2].color =
              (IF posargs[2].n > 80 THEN RED
               ELSE IF posargs[2].n > 50 THEN ORANGE
               ELSE GREEN)
        /\ \A i \in 1..Len(bars) :
              i # 2 => bars[i].color = ClassColor(StatClass(posargs[i].n))

(* hunger 81 is critical and 81 percent wide, beside an HP of 50 that is   *)
(* nominal                                                                 *)
C19_Witness ==
    /\ op = "show_stats v2.0" /\ MODE = "JUPYTER"
    /\ posargs[1].n = 50 /\ posargs[2].n = 81
    /\ bars[2].color = RED /\ bars[2].width = 81 /\ bars[2].value = 81
    /\ bars[1].color = GREEN


(* C20: whatever a presenter of v5.0 hands to display(), a fragment or a   *)
(* media object, is handed over by _render_html and by no other function.  *)
C20_AsStated ==
    \A i \in 1..Len(disp) : disp[i].via = "_render_html"

-----------------------------------------------------------------------------
(* The remaining presenters of v5.0.  Each is given as the events of the   *)
(* call, in order, and the exception that leaves it.                       *)

Returned(events) == [events |-> events, exc |-> ""]

(* the lines printed, the objects displayed and the sleeps among events *)
PrintedIn(events) ==
    LET p == SelectSeq(events, LAMBDA e : e.e = "print")
    IN  [i \in 1..Len(p) |-> Line(p[i].k, p[i].s, p[i].n)]

ShownIn(events) ==
    LET d == SelectSeq(events, LAMBDA e : e.e = "display")
    IN  [i \in 1..Len(d) |-> [via |-> d[i].s, kind |-> d[i].k]]

SleptIn(events) ==
    LET z == SelectSeq(events, LAMBDA e : e.e = "sleep")
    IN  [i \in 1..Len(z) |-> z[i].n]

(* a call on strings: no record, no list, no file *)
presents(o, t, r) ==
    /\ op' = o
    /\ text' = t
    /\ trace' = r.events
    /\ raised' = r.exc
    /\ out' = PrintedIn(r.events)
    /\ disp' = ShownIn(r.events)
    /\ slept' = SleptIn(r.events)
    /\ posargs' = <<>> /\ arg' = EmptyDict /\ enemy' = NoDict /\ path' = ""
    /\ ret' = NoDict /\ bars' = <<>>
    /\ layout' = <<>> /\ logs' = <<>> /\ logview' = <<>> /\ frames' = <<>>
    /\ after' = After(arg', enemy', logs', frames')

(* frame.endswith('.png') or frame.endswith('.jpg') *)
EndsWith(s, suffix) ==
    /\ Len(s) >= Len(suffix)
    /\ SubSeq(s, Len(s) - Len(suffix) + 1, Len(s)) = suffix

(* the image files of the assets directory are <mood>.png *)
image_name(filename) ==
    IF EndsWith(filename, ".png")
    THEN SubSeq(filename, 1, Len(filename) - 4)
    ELSE ""

(* show_image(filename): a printed line in TERMINAL mode; else nothing for *)
(* a file that is not found, a printed line for one that cannot be read,  *)
(* the image through _render_html otherwise                               *)
show_image_events(mode, filename) ==
    IF mode = "TERMINAL" THEN <<Printed(Line("IMAGE", filename, 0))>>
    ELSE TraceOf(show_image(mode, image_name(filename)).out,
                 show_image(mode, image_name(filename)).disp)

show_image_file(filename) ==
    /\ presents("show_image", filename,
                Returned(show_image_events(MODE, filename)))
    /\ handles' = IF MODE = "TERMINAL" THEN handles
                  ELSE with_open(handles, image_opens(image_name(filename)),
                                 FALSE)
    /\ UNCHANGED steady

(* show_pet(mood): a printed line in TERMINAL mode, else                   *)
(* show_image(f"{mood}.png")                                               *)
show_pet(mood) ==
    /\ presents("show_pet", mood,
                Returned(IF MODE = "TERMINAL"
                         THEN <<Printed(Line("Pet is", mood, 0))>>
                         ELSE show_image_events(MODE, mood \o ".png")))
    /\ handles' = IF MODE = "TERMINAL" THEN handles
                  ELSE with_open(handles, image_opens(mood), FALSE)
    /\ UNCHANGED steady

(* say(name, message) *)
say(name, message) ==
    /\ presents("say", message,
                Returned(IF MODE = "TERMINAL"
                         THEN <<Printed(Line(name, message, 0))>>
                         ELSE Shows(render_html(MODE))))
    /\ UNCHANGED world

(* set_label(name) *)
set_label(name) ==
    /\ presents("set_label", name,
                Returned(IF MODE = "TERMINAL"
                         THEN <<Printed(Line("LABEL Assigned Name", name, 0))>>
                         ELSE Shows(render_html(MODE))))
    /\ UNCHANGED world

(* show_chat_bubble(speaker, message, is_user, style): the style only      *)
(* picks the colour of the bubble                                          *)
show_chat_bubble(speaker, message, is_user) ==
    /\ presents("show_chat_bubble", message,
                Returned(IF MODE = "TERMINAL"
                         THEN <<Printed(Line(IF is_user THEN "You"
                                             ELSE speaker, message, 0))>>
                         ELSE Shows(render_html(MODE))))
    /\ UNCHANGED world

(* show_thinking without the return that ends its TERMINAL branch *)
thinking_falls_through(mode, prompt, thinking_time) ==
    IF sleep_error(thinking_time) # ""
    THEN [events |-> IF mode = "TERMINAL"
                     THEN <<Printed(Line("Thinking about", prompt, 0))>>
                     ELSE Shows(render_html(mode)),
          exc |-> sleep_error(thinking_time)]
    ELSE Returned((IF mode = "TERMINAL"
                   THEN <<Printed(Line("Thinking about", prompt, 0)),
                          Slept(thinking_time)>>
                   ELSE <<>>)
                  \o Shows(render_html(mode))
                  \o <<Slept(thinking_time), Cleared>>)

(* show_thinking(prompt, thinking_time), the time in milliseconds.         *)
(* TERMINAL: a line, the sleep.  JUPYTER: the indicator through            *)
(* _render_html, the sleep, clear_output(wait=True).                       *)
thinking(mode, prompt, thinking_time) ==
    IF sleep_error(thinking_time) # ""
    THEN [events |-> IF mode = "TERMINAL"
                     THEN <<Printed(Line("Thinking about", prompt, 0))>>
                     ELSE Shows(render_html(mode)),
          exc |-> sleep_error(thinking_time)]
    ELSE Returned(IF mode = "TERMINAL"
                  THEN <<Printed(Line("Thinking about", prompt, 0)),
                         Slept(thinking_time)>>
                  ELSE Shows(render_html(mode))
                       \o <<Slept(thinking_time), Cleared>>)

show_thinking(prompt, thinking_time) ==
    /\ presents("show_thinking", prompt, thinking(MODE, prompt, thinking_time))
    /\ UNCHANGED world

(* the characters of the text the TERMINAL line keeps *)
MindsetShown == 20

(* the whole text, whatever its length *)
all_of(s) == s

(* personality_text[:20] *)
first_20(s) == SubSeq(s, 1, Min(MindsetShown, Len(s)))

(* the line of set_mindset in TERMINAL mode:                               *)
(* f"[SYSTEM] Updating Mindset: {personality_text[:20]}..."                *)
mindset_line(personality_text) ==
    Line("SYSTEM Updating Mindset", first_20(personality_text) \o "...", 0)

(* a fragment through _render_html with text interpolated into it *)
render_text(mode, t) ==
    [i \in 1..Len(render_html(mode)) |->
        [via |-> render_html(mode)[i].via, kind |-> render_html(mode)[i].kind,
         text |-> t]]

(* set_mindset(personality_text) *)
set_mindset(personality_text) ==
    /\ op' = "set_mindset"
    /\ text' = personality_text
    /\ IF MODE = "TERMINAL"
       THEN /\ out' = <<mindset_line(personality_text)>>
            /\ disp' = <<>>
       ELSE /\ out' = <<>>
            /\ disp' = render_text(MODE, personality_text)
    /\ trace' = TraceOf(out', disp')
    /\ raised' = "" /\ slept' = <<>>
    /\ posargs' = <<>> /\ arg' = EmptyDict /\ enemy' = NoDict /\ path' = ""
    /\ ret' = NoDict /\ bars' = <<>>
    /\ layout' = <<>> /\ logs' = <<>> /\ logview' = <<>> /\ frames' = <<>>
    /\ after' = After(arg', enemy', logs', frames')
    /\ UNCHANGED world

(* one frame of show_animation, up to its sleep *)
frame_events(mode, frame) ==
    IF mode = "TERMINAL" THEN <<Printed(Line("", frame, 0))>>
    ELSE <<Cleared>>
         \o (IF EndsWith(frame, ".png") \/ EndsWith(frame, ".jpg")
             THEN show_image_events(mode, frame)
             ELSE <<Printed(Line("", frame, 0))>>)

(* the loop of show_animation with the sleep before the frame *)
RECURSIVE animation_sleep_first(_, _, _)
animation_sleep_first(mode, fr, delay) ==
    IF fr = <<>> THEN Returned(<<>>)
    ELSE IF sleep_error(delay) # ""
    THEN [events |-> <<>>, exc |-> sleep_error(delay)]
    ELSE LET rest == animation_sleep_first(mode, Tail(fr), delay)
         IN  [events |-> <<Slept(delay)>> \o frame_events(mode, Head(fr))
                         \o rest.events,
              exc |-> rest.exc]

(* for frame in frames: the frame, then time.sleep(delay); delay in        *)
(* milliseconds.  A sleep that raises ends the loop.                       *)
RECURSIVE animation(_, _, _)
animation(mode, fr, delay) ==
    IF fr = <<>> THEN Returned(<<>>)
    ELSE IF sleep_error(delay) # ""
    THEN [events |-> frame_events(mode, Head(fr)),
          exc |-> sleep_error(delay)]
    ELSE LET rest == animation(mode, Tail(fr), delay)
         IN  [events |-> frame_events(mode, Head(fr)) \o <<Slept(delay)>>
                         \o rest.events,
              exc |-> rest.exc]

(* the frames whose image file show_animation opened *)
frames_opened(fr, delay) ==
    LET shown == IF sleep_error(delay) # "" /\ fr # <<>> THEN <<Head(fr)>>
                 ELSE fr
    IN  SelectSeq(shown, LAMBDA f : image_opens(image_name(f)))

RECURSIVE with_open_each(_, _)
with_open_each(h, opened) ==
    IF opened = <<>> THEN h
    ELSE with_open_each(with_open(h, TRUE, FALSE), Tail(opened))

(* show_animation(frames, delay) *)
show_animation(fr, delay) ==
    /\ op' = "show_animation"
    /\ text' = ""
    /\ frames' = fr
    /\ trace' = animation(MODE, fr, delay).events
    /\ raised' = animation(MODE, fr, delay).exc
    /\ out' = PrintedIn(trace')
    /\ disp' = ShownIn(trace')
    /\ slept' = SleptIn(trace')
    /\ posargs' = <<PyInt(delay)>>
    /\ arg' = EmptyDict /\ enemy' = NoDict /\ path' = ""
    /\ ret' = NoDict /\ bars' = <<>>
    /\ layout' = <<>> /\ logs' = <<>> /\ logview' = <<>>
    /\ after' = After(arg', enemy', logs', for_each(fr))
    /\ handles' = IF MODE = "TERMINAL" THEN handles
                  ELSE with_open_each(handles, frames_opened(fr, delay))
    /\ UNCHANGED steady

-----------------------------------------------------------------------------
(* Every presenter of v5.0 side by side, in either mode, with image files  *)
(* that are in place, missing or unreadable.                               *)

MaxFrames == 2

Frames == {"Ready", "happy.png", "normal.png"}

RECURSIVE SeqsUpTo(_, _)
SeqsUpTo(S, n) ==
    IF n = 0 THEN {<<>>}
    ELSE SeqsUpTo(S, n - 1)
         \cup {Append(q, x) : q \in {r \in SeqsUpTo(S, n - 1) : Len(r) = n - 1},
                              x \in S}

FrameLists == SeqsUpTo(Frames, MaxFrames)

(* delays and thinking times in milliseconds *)
Delays == {0, 500, 0 - 500}

(* personality texts of 0, 5, 19, 20, 21 and 40 characters *)
Mindsets == {"", "Calm.", "You are a brave cat", "You are a brave cat.",
             "You are a brave cat!!",
             "You are a brave cat. You like fish a lot"}

InitShow ==
    /\ MODE \in Modes
    /\ Loaded
    /\ assets \in [Moods -> {"ok", "missing", "unreadable"}]
    /\ fs = [p \in Paths |-> [kind |-> PathKind(p), data |-> <<>>]]
    /\ saved = [p \in Paths |-> NoSave]
    /\ heap = <<>>
    /\ pets = <<>>
    /\ NoCall

NextShow ==
    \/ \E f \in {"normal.png", "happy.png", "ghost.png"} : show_image_file(f)
    \/ \E m \in Moods \cup {"sad"} : show_pet(m)
    \/ \E v \in {0, 100} : show_stats(v, v, Some(v))
    \/ \E m \in {"Meow", ""} : say("Fluffy", m)
    \/ \E n \in {"Fluffy", ""} : set_label(n)
    \/ \E p \in {EmptyDict, Hero} : show_pet_dict(p)
    \/ \E p \in {EmptyDict, Hero} : render_hud(p)
    \/ \E p \in Players, e \in Enemies, lg \in {Run(0), Run(4)} :
          show_dashboard(p, e, lg)
    \/ \E n \in {0, 6} : show_battle_log(Run(n))
    \/ \E fr \in FrameLists, d \in Delays : show_animation(fr, d)
    \/ \E t \in {"heal", "not_a_real_tag"}, shown \in BOOLEAN :
          play_sound(t, shown)
    \/ \E m \in {"Hi", ""}, u \in BOOLEAN : show_chat_bubble("Bot", m, u)
    \/ \E t \in Delays : show_thinking("plan", t)
    \/ \E d \in Payloads, l \in Latencies : simulate_api("/chat", d, l)
    \/ \E t \in Mindsets : set_mindset(t)
    \/ \E shown \in BOOLEAN : celebrate(shown)
    \/ \E shown \in BOOLEAN : show_credits("Ada", shown)

SpecShow == InitShow /\ [][NextShow]_vars

(* C21: in TERMINAL mode, whatever presenter was called, the display       *)
(* surface received nothing (no markup fragment, no audio object), the     *)
(* output was not cleared, and the call only printed lines (and slept).    *)
C21_TerminalPrintsOnly ==
    MODE = "TERMINAL" =>
        /\ disp = <<>>
        /\ \A i \in 1..Len(trace) : trace[i].e \in {"print", "sleep"}

(* show_thinking in TERMINAL mode: its line and its sleep, and no more *)
C21_Witness ==
    /\ MODE = "TERMINAL"
    /\ op = "show_thinking"
    /\ raised = ""
    /\ Len(trace) = 2
    /\ trace[2].e = "sleep"


(* C22: every presenter that embeds an image (show_image, show_pet, the    *)
(* entity cards of show_dashboard) fails softly: with the image file       *)
(* missing or unreadable, no exception leaves the call.                    *)
C22_AsStated ==
    op \in {"show_image", "show_pet", "show_dashboard"} => raised = ""

-----------------------------------------------------------------------------
(* The calls that open files or are handed records and lists: save_pet and *)
(* load_pet on good and bad paths, with payloads that json.dump accepts    *)
(* and rejects, and the readers of records, logs and frames.               *)

FileRecords == {EmptyDict, Hero,
                <<Item(K("name"), PyStr("Rex")), Item(K("tags"), PySet)>>}

InitFiles ==
    /\ MODE \in Modes
    /\ Loaded
    /\ assets \in {[m \in Moods |-> k] : k \in {"ok", "missing", "unreadable"}}
    /\ fs = [p \in Paths |-> [kind |-> PathKind(p), data |-> <<>>]]
    /\ saved = [p \in Paths |-> NoSave]
    /\ heap = <<>>
    /\ pets = <<>>
    /\ NoCall

NextFiles ==
    \/ \E r \in FileRecords, p \in Paths : save_pet(r, p)
    \/ \E p \in Paths : load_pet(p)
    \/ \E f \in {"normal.png", "ghost.png"} : show_image_file(f)
    \/ \E p \in {EmptyDict, Hero} : show_pet_dict(p)
    \/ \E p \in {EmptyDict, Hero} : render_hud(p)
    \/ \E p \in Players, e \in Enemies, lg \in {Run(0), Run(4)} :
          show_dashboard(p, e, lg)
    \/ \E n \in {0, 6} : show_battle_log(Run(n))
    \/ \E fr \in FrameLists, d \in {0, 500} : show_animation(fr, d)
    \/ \E t \in {"heal", "not_a_real_tag"} : play_sound(t, TRUE)

SpecFiles == InitFiles /\ [][NextFiles]_vars

(* C23: no file handle outlives the call that opened it: after save_pet,   *)
(* load_pet, show_image or show_dashboard has returned or failed, by any   *)
(* exit path, no file is open.                                             *)
C23_NoOpenFiles == handles = 0

(* save_pet opened the file and json.dump failed inside the with block *)
C23_Witness ==
    /\ op = "save_pet"
    /\ out = <<Line("save_failed", "TypeError", 0)>>
    /\ fs[path].kind = "file"
    /\ handles = 0

(* C24: show_pet_dict, render_hud, show_dashboard, show_battle_log,        *)
(* show_animation and save_pet leave the record, the enemy record, the log *)
(* list and the frame list they were given unchanged, and the sound        *)
(* library is the same table after any sequence of calls.                  *)
C24_InputsUnchanged ==
    /\ sound_library = SoundTags
    /\ op \in {"show_pet_dict", "render_hud", "show_dashboard",
               "show_battle_log", "show_animation", "save_pet"}
          => after = After(arg, enemy, logs, frames)

(* show_pet_dict read the default of a key the record does not have *)
C24_Witness ==
    /\ op = "show_pet_dict"
    /\ HasKey(arg, K("name"))
    /\ ~HasKey(arg, K("happiness"))
    /\ after.arg = arg


RECURSIVE Total(_)
Total(s) == IF s = <<>> THEN 0 ELSE Head(s) + Total(Tail(s))

(* C26, as stated: a simulate_api call that returns has printed the three  *)
(* staged lines sending, processing, received with a pause of latency/2    *)
(* between the first and the second and between the second and the third.  *)
C26_AsStated ==
    (op = "simulate_api" /\ raised = "") =>
        /\ Len(out) = 3
        /\ slept = <<posargs[1].n \div 2, posargs[1].n \div 2>>
        /\ \E i, j \in 1..Len(trace) :
              /\ i < j
              /\ trace[i].e = "sleep" /\ trace[j].e = "sleep"
              /\ \E a, b, c \in 1..Len(trace) :
                    /\ a < i /\ i < b /\ b < j /\ j < c
                    /\ trace[a].e = "print" /\ trace[b].e = "print"
                    /\ trace[c].e = "print"

(* C26, amended: in JUPYTER mode simulate_api prints the sending line,     *)
(* displays the payload, pauses latency/2, prints the processing line,     *)
(* pauses latency/2 and prints the received line; in TERMINAL mode it      *)
(* prints the POST line and the data line, pauses once for the whole       *)
(* latency and prints the response line.  Either way a call that returns   *)
(* has blocked for latency in total, and the call only prints, displays    *)
(* and sleeps.  A negative latency raises ValueError at the first pause,   *)
(* and in JUPYTER mode a payload json.dumps rejects raises TypeError after *)
(* the sending line.                                                       *)
C26_Staged ==
    op = "simulate_api" =>
        LET latency == posargs[1].n
            sending == Printed(Line("Sending data to", text, 0))
            payload == Shown([via |-> "simulate_api", kind |-> "html"])
            post    == <<Printed(Line("POST", text, 0)),
                         Printed(Line("Data", "", Len(arg)))>>
        IN  /\ \A i \in 1..Len(trace) :
                  trace[i].e \in {"print", "display", "sleep"}
            /\ raised = "" => Total(slept) = latency
            /\ IF MODE = "TERMINAL"
               THEN IF latency < 0
                    THEN raised = "ValueError" /\ trace = post
                    ELSE /\ raised = ""
                         /\ trace = post \o
                               <<Slept(latency),
                                 Printed(Line("Response: 200 OK", "", 0))>>
               ELSE IF ~json_dump(arg).ok
                    THEN raised = "TypeError" /\ trace = <<sending>>
               ELSE IF latency < 0
                    THEN raised = "ValueError" /\ trace = <<sending, payload>>
               ELSE /\ raised = ""
                    /\ trace =
                         <<sending, payload, Slept(latency \div 2),
                           Printed(Line("Processing in Cloud", "", 0)),
                           Slept(latency \div 2),
                           Printed(Line("Response received (200 OK)", "", 0))>>

(* a JUPYTER call with a latency of two seconds: two pauses of one second *)
C26_Witness ==
    /\ op = "simulate_api"
    /\ MODE = "JUPYTER"
    /\ raised = ""
    /\ posargs[1].n = 2000
    /\ slept = <<1000, 1000>>
    /\ Len(trace) = 6


(* the sound a closing presenter triggers, and the lines of its panel in   *)
(* TERMINAL mode                                                           *)
ClosingSound(o) == IF o = "celebrate" THEN "level_up" ELSE "heal"
ClosingLines(o) == IF o = "celebrate" THEN 9 ELSE 7

(* C27, as stated: celebrate and show_credits emit their panel and then    *)
(* do what play_sound does for "level_up" and "heal".                      *)
C27_AsStated ==
    op \in {"celebrate", "show_credits"} =>
        \E shown \in BOOLEAN :
            trace = (IF MODE = "TERMINAL"
                     THEN Prints(SubSeq(out, 1, ClosingLines(op)))
                     ELSE Shows(render_html(MODE)))
                    \o TraceOf(play_sound_body(MODE, ClosingSound(op),
                                               shown).out,
                               play_sound_body(MODE, ClosingSound(op),
                                               shown).disp)

(* C27, amended: in JUPYTER mode celebrate and show_credits hand their     *)
(* panel to _render_html first and then call play_sound with "level_up"    *)
(* and "heal"; both are keys of the sound library, so what follows the     *)
(* panel is the audio object handed to display (or the failure line when   *)
(* that call raises), never the unknown-tag lines.  In TERMINAL mode they  *)
(* print the panel and then a sound line of their own, without calling     *)
(* play_sound.                                                             *)
C27_PanelThenSound ==
    op \in {"celebrate", "show_credits"} =>
        /\ sound_known(ClosingSound(op))
        /\ raised = ""
        /\ IF MODE = "JUPYTER"
           THEN /\ Len(trace) = 2
                /\ trace[1] = Shown([via |-> "_render_html", kind |-> "html"])
                /\ \/ trace[2] = Shown([via |-> "play_sound", kind |-> "audio"])
                   \/ trace[2] = Printed(Line("Failed to play sound", "", 0))
                /\ \A i \in 1..Len(out) : out[i].k # "Unknown sound"
           ELSE /\ trace = Prints(out)
                /\ Len(out) = ClosingLines(op) + 1
                /\ out[Len(out)] =
                      Line("SOUND Playing " \o ClosingSound(op) \o " sound",
                           "", 0)
                /\ out[Len(out)]
                      # play_sound_body(MODE, ClosingSound(op), TRUE).out[1]

(* celebrate in JUPYTER mode: the banner, then the audio object *)
C27_Witness ==
    /\ op = "celebrate"
    /\ MODE = "JUPYTER"
    /\ Len(disp) = 2
    /\ disp[2].kind = "audio"


(* C28, as stated: set_mindset puts the personality text out literally and *)
(* in full, whatever its length, in either mode.                           *)
C28_AsStated ==
    op = "set_mindset" =>
        IF MODE = "TERMINAL"
        THEN /\ Len(out) = 1
             /\ \E i \in 1..(Len(out[1].s) + 1) :
                   i + Len(text) - 1 <= Len(out[1].s)
                   /\ SubSeq(out[1].s, i, i + Len(text) - 1) = text
        ELSE Len(disp) = 1 /\ disp[1].text = text

(* C28, amended: in JUPYTER mode set_mindset puts the whole personality    *)
(* text into the fragment it renders; in TERMINAL mode it prints the first *)
(* 20 characters of the text followed by "...", so a text of more than 20  *)
(* characters is cut and any text gets the dots appended.                  *)
C28_MindsetText ==
    op = "set_mindset" =>
        /\ raised = ""
        /\ IF MODE = "TERMINAL"
           THEN /\ disp = <<>>
                /\ Len(out) = 1
                /\ Len(out[1].s) = Min(Len(text), MindsetShown) + 3
                /\ \A i \in 1..Min(Len(text), MindsetShown) :
                      SubSeq(out[1].s, i, i) = SubSeq(text, i, i)
                /\ SubSeq(out[1].s, Len(out[1].s) - 2, Len(out[1].s)) = "..."
           ELSE /\ out = <<>>
                /\ disp = <<[via |-> "_render_html", kind |-> "html",
                             text |-> text]>>

(* a text of 40 characters in TERMINAL mode: 20 of them and the dots *)
C28_Witness ==
    /\ op = "set_mindset"
    /\ MODE = "TERMINAL"
    /\ Len(text) > MindsetShown
    /\ Len(out[1].s) = MindsetShown + 3

-----------------------------------------------------------------------------
(* The public names of each version of pet_lib: its top-level functions    *)
(* and aliases without a leading underscore.                               *)

Exports_v1_0 == {"get_version", "check_compatibility", "show_image",
                 "show_egg", "summon", "show_pet", "show_stats", "say",
                 "set_label"}

Exports_v1_1 == {"get_version", "check_compatibility", "show_image",
                 "show_egg", "summon", "show_pet", "show_stats", "say",
                 "set_label"}

Exports_v2_0 == {"get_version", "show_image", "show_pet", "show_stats", "say",
                 "set_label", "create_pet", "show_pet_dict", "save_pet",
                 "load_pet"}

Exports_v3_0 == Exports_v2_0
                \cup {"render_hud", "show_dashboard", "show_battle_log",
                      "show_animation", "play_sound"}

Exports_v5_0 == Exports_v3_0
                \cup {"show_chat_bubble", "show_thinking", "simulate_api",
                      "set_mindset", "celebrate", "show_credits"}

Exports(v) ==
    IF v = "v1.0" THEN Exports_v1_0
    ELSE IF v = "v1.1" THEN Exports_v1_1
    ELSE IF v = "v2.0" THEN Exports_v2_0
    ELSE IF v = "v3.0" THEN Exports_v3_0
    ELSE Exports_v5_0

(* pet_lib.<name> on the imported module: AttributeError for a name the    *)
(* module does not define                                                  *)
getattr_pet_lib(name) ==
    /\ version # ""
    /\ op' = "getattr"
    /\ text' = name
    /\ raised' = IF name \in Exports(version) THEN "" ELSE "AttributeError"
    /\ out' = <<>> /\ disp' = <<>> /\ slept' = <<>> /\ trace' = <<>>
    /\ posargs' = <<>> /\ arg' = EmptyDict /\ enemy' = NoDict /\ path' = ""
    /\ ret' = NoDict /\ bars' = <<>>
    /\ layout' = <<>> /\ logs' = <<>> /\ logview' = <<>> /\ frames' = <<>>
    /\ after' = After(arg', enemy', logs', frames')
    /\ UNCHANGED world

Names == UNION {Exports(v) : v \in Versions} \cup {"no_such_name"}

(* A process that imports one of the versions and looks names up in it. *)
NextVersions ==
    \/ \E v \in Versions : import_pet_lib(v)
    \/ \E a \in BOOLEAN : set_ipython(a)
    \/ \E n \in Names : getattr_pet_lib(n)

SpecVersions == InitLoad /\ [][NextVersions]_vars

(* C29: every public operation of v1.0 (get_version, check_compatibility,  *)
(* show_image, show_egg, summon, show_pet, show_stats, say, set_label) is  *)
(* offered by every later version: looking one up never fails.             *)
C29_AsStated ==
    (op = "getattr" /\ text \in Exports_v1_0) => raised = ""


(* C30: a save_pet that fails leaves what is stored unchanged: the         *)
(* document of the last successful save is still at the path, and the      *)
(* load_pet that follows returns that record.                              *)
C30_AsStated ==
    /\ \A p \in Paths :
          (saved[p].some /\ ~saved[p].ok) =>
              fs[p].data = json_dump(saved[p].d).toks
    /\ (op = "load_pet" /\ saved[path].some /\ ~saved[path].ok) =>
          /\ ret.some
          /\ JSONNative(saved[path].d) => ret.d = saved[path].d

=============================================================================
